---- MODULE Spec2Model ----
(***************************************************************************)
(* The adaptive orchestration engine of adaptivemd: Project.trigger (the   *)
(* event-advancement loop and the worker fault sweep), Project.add_event,  *)
(* Project.wait_until and the lock that guards a trigger cycle, over the   *)
(* Worker and Task bundles of the store.                                   *)
(*                                                                         *)
(* src/adaptivemd/project.py holds the orchestrator.  Event, ExecutionPlan,*)
(* Worker and Task are imported from modules that are not under src/; what *)
(* the orchestrator needs of them is modelled from spec.md (3, 4.3, 4.5, 6)*)
(***************************************************************************)
EXTENDS Integers, Sequences, FiniteSets, TLC

\* ------------------------------------------------------------- bounds
NumWorkers == 2
NumTasks == 2
MaxEvents == 2
MaxSteps == 1
MaxTicks == 1
MaxList == 2
MaxFiles == 6
MaxModels == 2
MaxConditions == 2
MaxNumber == 5
MaxConfigs == 3
MaxRuns == 2
MaxLines == 4
MaxLineLen == 3

\* ------------------------------------------------- program constants
MaxIterations == 50
DeadTime == 60
None == 0

Threads == {"main", "driver"}
\* the EventTriggerTimer threads that run() starts, in the order it starts them
Timer(i) == "timer" \o ToString(i)
Timers == {Timer(i) : i \in 1..MaxRuns}
\* where a thread can be inside the with block of trigger()
Body == {"loop", "events", "delete", "sweep", "mark", "tasks", "settask", "clear"}
NoThread == "none"
Workers == 1..NumWorkers
Tasks == 1..NumTasks
EventIds == 1..MaxEvents
\* a plan whose generator never runs out (while True: yield ...)
Endless == MaxSteps + 1
\* what add_event may be handed, and what the registered list may then hold
Inputs == {"Event", "generator"}
Kinds == {"Event", "ExecutionPlan", "generator", "none"}
NoPolicy == "None"
Policies == {"created", "fail", NoPolicy}
TerminalStates == {"success", "fail", "halt", "cancelled"}
\* what a Worker reports for a Task that ran to its end
Reported == {"success", "fail"}
TaskStates == {"created", "queued", "running"} \cup TerminalStates
WorkerStates == {"idle", "running", "down", "dead"}
\* the sorts of stored files: a Trajectory whose files exist, one whose files
\* do not exist yet, and a file of another type
FileSorts ==
    {[type |-> "Trajectory", exists |-> TRUE], [type |-> "Trajectory", exists |-> FALSE],
     [type |-> "File", exists |-> TRUE]}
\* the project itself and another one a condition may have been made for
Projects == {"self", "other"}
Classes == {"NTrajectories", "NModels"}
\* what is added to a condition: an int, a bool (an int to isinstance), a
\* float or a string
Addends ==
    {[type |-> "int", value |-> k] : k \in {-1, 1, 2}}
    \cup {[type |-> "bool", value |-> 1], [type |-> "float", value |-> 1],
          [type |-> "str", value |-> 0]}
NoAddend == [type |-> "none", value |-> 0]
\* the names stored configurations have, and the names asked for
StoredNames == {"summit", "local.localhost"}
Names == StoredNames \cup {"a"}
\* what set_current_configuration is given: None, a name, or the stored
\* Configuration object at a position of the bundle
Selections ==
    {[kind |-> "None", name |-> "", at |-> 0]}
    \cup {[kind |-> "str", name |-> n, at |-> 0] : n \in Names}
    \cup {[kind |-> "Configuration", name |-> "", at |-> i] : i \in 1..MaxConfigs}
Ambiguous == "Configuration selection must match a single item"
Missing == <<"Did not set a new current configuration", "Setting current to Summit">>

VARIABLES
    events,     \* self._events, the registered events in registration order
    steps,      \* steps[e]: steps the plan of event e has left (0: finished)
    kind,       \* kind[e]: the type of the object registered as e
    ready,      \* ready[e]: the Condition event e waits for checks true
    cond,       \* what the callable given to wait_until returns now
    lock,       \* the thread that holds self._lock, or NoThread
    policy,     \* self._set_task_state_from_dead_workers
    workers,    \* the Worker bundle: state, seen, command, current
    tasks,      \* the Task bundle: state, worker
    clock,      \* time.time()
    ticks,      \* how often the clock has advanced
    pc,         \* where each thread is
    frame,      \* the locals of each thread's running trigger() call
    stack,      \* the trigger() calls a thread has suspended in an event action
    hist,       \* per thread, what its running call has seen and done
    files,      \* self.files: how many stored files there are of each sort
    models,     \* self.models: how many stored models there are
    conditions, \* the NTrajectories and NModels objects made so far
    result,     \* what the last call on a condition returned
    configurations,         \* self.configurations: name and current flag of each
    current_configuration,  \* self._current_configuration
    log,        \* the messages written with logger.error
    event_timer,    \* self._event_timer: the timer thread, or NoThread
    stop_event,     \* self._stop_event
    signals,    \* the threading.Event objects whose flag is set
    timer,      \* the EventTriggerTimer objects: the field stopped of each
    storage,    \* self.storage: the connection to the store, open or closed
    conds,      \* what each callable of the list given to wait_until returns now
    parser      \* parse_cfg_file at work: its locals, the line read last, the outcome

\* what trigger(), add_event and wait_until never touch
others == <<files, models, conditions, result, configurations, current_configuration, log,
            event_timer, stop_event, signals, timer, storage, conds, parser>>

vars == <<events, steps, kind, ready, cond, lock, policy, workers, tasks, clock, ticks,
          pc, frame, stack, hist, others>>

store == <<workers, tasks, clock, ticks>>

Range(s) == {s[i] : i \in 1..Len(s)}

\* list.index: the position of the first element equal to e (0: ValueError)
IndexOf(s, e) ==
    IF e \in Range(s) THEN CHOOSE i \in 1..Len(s) : s[i] = e /\ \A j \in 1..(i - 1) : s[j] # e
    ELSE 0

\* Faulty variant: the finished event stays in the list
DeleteAtForgotten(s, i) == s

\* del s[i]
DeleteAt(s, i) == [j \in 1..(Len(s) - 1) |-> IF j < i THEN s[j] ELSE s[j + 1]]

NoFrame ==
    [found_iteration |-> 0, found_new_events |-> FALSE, snapshot |-> <<>>,
     i |-> 0, idx |-> 0, now |-> 0, w |-> 0, t |-> 0]

\* What a thread's running operation is and has done: op, the operation;
\* handles, the events it registered, with plan and satisfied as they were at
\* registration; calls, the trigger() calls of it that took the lock (for
\* wait_until: since the last poll); polls, the polls of wait_until (2: two or more); returned
\* and result, whether it has returned and what; for wait_until with a list:
\* at, the position of the callable it waits for; polled, the positions
\* whose callable it has called; observed, those it has seen return true.
NoCall ==
    [op |-> "none", handles |-> <<>>, plan |-> 0, satisfied |-> FALSE,
     calls |-> 0, polls |-> 0, returned |-> FALSE, result |-> <<>>,
     at |-> 0, polled |-> {}, observed |-> {}]

\* passes: passes of the event loop started (51: more than 50); sweeps: sweeps started; tasks,
\* workers: the two bundles as they were when the call took the lock;
\* advanced: the events event.trigger() was called on in the running pass
NoHist ==
    [passes |-> 0, sweeps |-> 0, tasks |-> <<>>, workers |-> <<>>,
     advanced |-> <<>>, call |-> NoCall]

\* What the last call on a condition was and returned: op on conditions[on]
\* with argument arg returned value, and ref is the condition object returned.
NoResult == [op |-> "none", on |-> 0, arg |-> NoAddend, value |-> "None", ref |-> 0]

\* The last call of set_current_configuration and what it wrote with logger.error
NoLog == [call |-> [kind |-> "none", name |-> "", at |-> 0], errors |-> <<>>]

\* Does the object have the interface of an Event? A generator has not.
HasTrigger(e) == kind[e] # "generator"

\* bool(event): an event is pending while its plan has steps left; an object
\* without __bool__ and __len__, like a generator, is always true
Pending(e) == IF HasTrigger(e) THEN steps[e] > 0 ELSE TRUE

\* Faulty variant: if event left out
ShouldTriggerAlways(e) == TRUE

\* if event: new_events = event.trigger()
ShouldTrigger(e) == Pending(e)

\* the cursor after one step of the plan
Advanced(n) == IF n = Endless THEN Endless ELSE n - 1

\* every event object some list still refers to
Referenced ==
    Range(events)
    \cup UNION {Range(frame[th].snapshot) : th \in Threads \cup Timers}
    \cup UNION {UNION {Range(stack[th][d].frame.snapshot) : d \in 1..Len(stack[th])} :
                    th \in Threads \cup Timers}
    \cup UNION {Range(hist[th].call.handles) : th \in Threads \cup Timers}

FreshEvent == CHOOSE e \in EventIds \ Referenced : \A f \in EventIds \ Referenced : e <= f

\* n new event objects
FreshEvents(n) ==
    [i \in 1..n |-> CHOOSE e \in EventIds \ Referenced :
                        Cardinality({f \in EventIds \ Referenced : f < e}) = i - 1]

\* events_done(): len(self._events) == 0
events_done == Len(events) = 0

----
\* ---- util.parse_cfg_file
\* The characters of a configuration file, a string being the sequence of
\* its characters; the lines of a file: every string of up to MaxLineLen
\* characters, and every line of three words of one character.
Chars == {" ", "#", "{", "}", "x"}

Lines ==
    UNION {[1..n -> Chars] : n \in 0..MaxLineLen}
    \cup {<<a, " ", b, " ", c>> : a \in Chars \ {" "}, b \in Chars \ {" "}, c \in Chars \ {" "}}

\* The length of the first word of s, s not starting with white space
Word(s) ==
    IF \E i \in 1..Len(s) : s[i] = " "
    THEN (CHOOSE i \in 1..Len(s) : s[i] = " " /\ \A j \in 1..(i - 1) : s[j] # " ") - 1
    ELSE Len(s)

\* line.strip().split(): the words of the line, white space dropped
RECURSIVE Split(_)
Split(s) ==
    IF s = <<>> THEN <<>>
    ELSE IF Head(s) = " " THEN Split(Tail(s))
    ELSE <<SubSeq(s, 1, Word(s))>> \o Split(SubSeq(s, Word(s) + 1, Len(s)))

\* Faulty variant: a line that starts with '#' is read like any other
parse_lineAll(line) == Split(line)

\* parse_line(line)
parse_line(line) ==
    LET v == Split(line)
    IN IF Len(v) > 0 /\ v[1][1] # "#" THEN v ELSE <<>>

\* reading_fields = False, the empty string standing for False;
\* configurations_fields = dict(); no line read yet
Opening ==
    [reading_fields |-> <<>>, configurations_fields |-> <<>>, line |-> <<>>,
     lines |-> 0, ValueError |-> FALSE, returned |-> FALSE]

\* d[k] = v
SetItem(d, k, v) == [x \in DOMAIN d \cup {k} |-> IF x = k THEN v ELSE d[x]]

\* One turn of for line in f_cfg, for the next line of the file
ReadLine(line) ==
    /\ ~parser.ValueError /\ ~parser.returned
    /\ parser.lines < MaxLines
    /\ LET v == parse_line(line)
           reading_fields == parser.reading_fields
           configurations_fields == parser.configurations_fields
           read == [parser EXCEPT !.line = line, !.lines = @ + 1]
       IN parser' =
            IF reading_fields # <<>>
            THEN IF Len(v) = 1 /\ Len(v[1]) = 1
                 THEN IF v[1][1] = "}"
                      THEN [read EXCEPT !.reading_fields = <<>>]
                      ELSE [read EXCEPT !.ValueError = TRUE]
                 ELSE IF Len(v) = 2
                 THEN [read EXCEPT !.configurations_fields =
                          SetItem(configurations_fields, reading_fields,
                                  SetItem(configurations_fields[reading_fields], v[1], v[2]))]
                 ELSE IF Len(v) = 1 \/ Len(v) > 2
                 THEN [read EXCEPT !.ValueError = TRUE]
                 ELSE read
            ELSE IF Len(v) = 2 /\ v[2] = <<"{">>
                 THEN [read EXCEPT !.reading_fields = v[1],
                                   !.configurations_fields =
                                       SetItem(configurations_fields, v[1], <<>>)]
                 ELSE read
    /\ UNCHANGED <<events, steps, kind, ready, cond, lock, policy, store, pc, frame, stack, hist,
                   files, models, conditions, result, configurations, current_configuration,
                   log, event_timer, stop_event, signals, timer, storage, conds>>

\* The file has no further line: return configurations_fields
EndOfFile ==
    /\ ~parser.ValueError /\ ~parser.returned
    /\ parser' = [parser EXCEPT !.returned = TRUE]
    /\ UNCHANGED <<events, steps, kind, ready, cond, lock, policy, store, pc, frame, stack, hist,
                   files, models, conditions, result, configurations, current_configuration,
                   log, event_timer, stop_event, signals, timer, storage, conds>>

----
\* No file, no model and no condition object yet.
Empty ==
    /\ files = [x \in FileSorts |-> 0]
    /\ models = 0
    /\ conditions = <<>>
    /\ result = NoResult

\* No configuration stored: self._current_configuration = None
Unconfigured ==
    /\ configurations = <<>>
    /\ current_configuration = None
    /\ log = NoLog

\* self._event_timer = None, self._stop_event = None
Unobserved ==
    /\ event_timer = NoThread
    /\ stop_event = None
    /\ signals = {}
    /\ timer = [th \in Timers |-> [stopped |-> None]]

\* self._open_db() in the constructor
Opened == storage = "open"

\* State after construction at time at, over a store in which worker 1 runs
\* task 1 and every worker wrote its last heartbeat at time 0.
Construct(at) ==
    /\ events = <<>>
    /\ steps = [e \in EventIds |-> 0]
    /\ kind = [e \in EventIds |-> "none"]
    /\ ready = [e \in EventIds |-> FALSE]
    /\ lock = NoThread
    /\ workers = [w \in Workers |->
                    IF w = 1
                    THEN [state |-> "running", seen |-> 0, command |-> "none", current |-> 1]
                    ELSE [state |-> "idle", seen |-> 0, command |-> "none", current |-> None]]
    /\ tasks = [t \in Tasks |->
                    IF t = 1 THEN [state |-> "running", worker |-> 1]
                    ELSE [state |-> "created", worker |-> None]]
    /\ clock = at
    /\ ticks = 0
    /\ pc = [th \in Threads \cup Timers |-> IF th \in Threads THEN "idle" ELSE "unstarted"]
    /\ frame = [th \in Threads \cup Timers |-> NoFrame]
    /\ stack = [th \in Threads \cup Timers |-> <<>>]
    /\ hist = [th \in Threads \cup Timers |-> NoHist]
    /\ Empty
    /\ Unconfigured
    /\ Unobserved
    /\ Opened
    /\ conds = <<>>
    /\ parser = Opening

Init == Construct(DeadTime + 1) /\ policy = "created" /\ cond = FALSE

----
\* Faulty variant: trigger() without the with statement: nobody waits
LockIgnored(th) == TRUE

\* The orchestrator lock: threading.Lock, not re-entrant; acquire waits until
\* no thread holds it, the holder included.
LockAvailable(th) == lock = NoThread

\* A caller starts trigger(): the background driver or the user.
CallTrigger(th) ==
    /\ pc[th] = "idle"
    /\ pc' = [pc EXCEPT ![th] = "acquire"]
    /\ hist' = [hist EXCEPT ![th] = [NoHist EXCEPT !.call.op = "trigger"]]
    /\ UNCHANGED <<events, steps, kind, ready, cond, lock, policy, others, store, frame, stack>>

\* Faulty variant: the generator is registered as it is
NormalizeSkipped(k) == k

\* if isinstance(event, types.GeneratorType): event = ExecutionPlan(event)
Normalize(k) == IF k = "generator" THEN "ExecutionPlan" ELSE k

\* Faulty variant: add_event without self.trigger()
AddEventWithoutTrigger(th, k, n, r) ==
    /\ pc[th] = "idle"
    /\ EventIds \ Referenced # {}
    /\ events' = Append(events, FreshEvent)
    /\ steps' = [steps EXCEPT ![FreshEvent] = n]
    /\ kind' = [kind EXCEPT ![FreshEvent] = Normalize(k)]
    /\ ready' = [ready EXCEPT ![FreshEvent] = r]
    /\ hist' = [hist EXCEPT ![th] =
                    [NoHist EXCEPT !.call =
                        [NoCall EXCEPT !.op = "add_event", !.handles = <<FreshEvent>>,
                                       !.plan = n, !.satisfied = r, !.returned = TRUE,
                                       !.result = <<FreshEvent>>]]]
    /\ pc' = [pc EXCEPT ![th] = "returned"]
    /\ UNCHANGED <<cond, lock, policy, others, store, frame, stack>>

\* Faulty variant: self._events.insert(0, event)
AddEventInFront(th, k, n, r) ==
    /\ pc[th] = "idle"
    /\ EventIds \ Referenced # {}
    /\ events' = <<FreshEvent>> \o events
    /\ steps' = [steps EXCEPT ![FreshEvent] = n]
    /\ kind' = [kind EXCEPT ![FreshEvent] = Normalize(k)]
    /\ ready' = [ready EXCEPT ![FreshEvent] = r]
    /\ hist' = [hist EXCEPT ![th] =
                    [NoHist EXCEPT !.call =
                        [NoCall EXCEPT !.op = "add_event", !.handles = <<FreshEvent>>,
                                       !.plan = n, !.satisfied = r]]]
    /\ pc' = [pc EXCEPT ![th] = "acquire"]
    /\ UNCHANGED <<cond, lock, policy, others, store, frame, stack>>

\* add_event(event) for a single event or generator of kind k whose plan has
\* n steps and whose first Condition checks r: the append, outside the lock,
\* and then the call of trigger().
AddEvent(th, k, n, r) ==
    /\ pc[th] = "idle"
    /\ EventIds \ Referenced # {}
    /\ events' = Append(events, FreshEvent)
    /\ steps' = [steps EXCEPT ![FreshEvent] = n]
    /\ kind' = [kind EXCEPT ![FreshEvent] = Normalize(k)]
    /\ ready' = [ready EXCEPT ![FreshEvent] = r]
    /\ hist' = [hist EXCEPT ![th] =
                    [NoHist EXCEPT !.call =
                        [NoCall EXCEPT !.op = "add_event", !.handles = <<FreshEvent>>,
                                       !.plan = n, !.satisfied = r]]]
    /\ pc' = [pc EXCEPT ![th] = "acquire"]
    /\ UNCHANGED <<cond, lock, policy, others, store, frame, stack>>

\* add_event(event) for a list or tuple l:
\* return list(map(self._events.append, event)), and nothing more.
AddEventList(th, l) ==
    /\ pc[th] = "idle"
    /\ Cardinality(EventIds \ Referenced) >= Len(l)
    /\ LET new == FreshEvents(Len(l))
           at(e) == CHOOSE i \in 1..Len(l) : new[i] = e
       IN /\ events' = events \o new
          /\ steps' = [e \in EventIds |-> IF e \in Range(new) THEN l[at(e)].n ELSE steps[e]]
          /\ kind' = [e \in EventIds |-> IF e \in Range(new) THEN l[at(e)].k ELSE kind[e]]
          /\ ready' = [e \in EventIds |-> IF e \in Range(new) THEN l[at(e)].r ELSE ready[e]]
          /\ hist' = [hist EXCEPT ![th] =
                        [NoHist EXCEPT !.call =
                            [NoCall EXCEPT !.op = "add_events", !.handles = new,
                                           !.returned = TRUE,
                                           !.result = [i \in 1..Len(l) |-> None]]]]
    /\ pc' = [pc EXCEPT ![th] = "returned"]
    /\ UNCHANGED <<cond, lock, policy, others, store, frame, stack>>

\* with self._lock: ... found_iteration = 50
Acquire(th) ==
    /\ pc[th] = "acquire"
    /\ LockAvailable(th)
    /\ lock' = th
    /\ frame' = [frame EXCEPT ![th] = [NoFrame EXCEPT !.found_iteration = MaxIterations]]
    /\ hist' = [hist EXCEPT ![th] =
                    [NoHist EXCEPT !.tasks = tasks, !.workers = workers,
                                   !.call = [hist[th].call EXCEPT !.calls = @ + 1]]]
    /\ pc' = [pc EXCEPT ![th] = "loop"]
    /\ UNCHANGED <<events, steps, kind, ready, cond, policy, others, store, stack>>

\* while found_iteration > 0
LoopContinues(n) == n > 0

\* Faulty variant: the list is copied once per call, before the first pass
PassStartOneCopy(th) ==
    /\ pc[th] = "loop"
    /\ LoopContinues(frame[th].found_iteration)
    /\ frame' = [frame EXCEPT ![th].found_new_events = FALSE,
                              ![th].snapshot = IF hist[th].passes = 0 THEN events ELSE @,
                              ![th].i = 1]
    /\ hist' = [hist EXCEPT ![th].passes = IF @ > MaxIterations THEN @ ELSE @ + 1,
                            ![th].advanced = <<>>]
    /\ pc' = [pc EXCEPT ![th] = "events"]
    /\ UNCHANGED <<events, steps, kind, ready, cond, lock, policy, others, store, stack>>

\* One more pass: found_new_events = False; for event in list(self._events)
PassStart(th) ==
    /\ pc[th] = "loop"
    /\ LoopContinues(frame[th].found_iteration)
    /\ frame' = [frame EXCEPT ![th].found_new_events = FALSE,
                              ![th].snapshot = events,
                              ![th].i = 1]
    /\ hist' = [hist EXCEPT ![th].passes = IF @ > MaxIterations THEN @ ELSE @ + 1,
                            ![th].advanced = <<>>]
    /\ pc' = [pc EXCEPT ![th] = "events"]
    /\ UNCHANGED <<events, steps, kind, ready, cond, lock, policy, others, store, stack>>

\* Faulty variant: self._lock.acquire() with no with statement and no finally
RaiseKeepsLock(th) ==
    /\ lock' = lock
    /\ stack' = [stack EXCEPT ![th] = <<>>]
    /\ frame' = [frame EXCEPT ![th] = NoFrame]
    /\ hist' = [hist EXCEPT ![th] = NoHist]
    /\ pc' = [pc EXCEPT ![th] = IF hist[th].call.op = "timer" THEN "terminated" ELSE "idle"]

\* An exception leaves trigger(): the with statement releases the lock and
\* the exception unwinds every suspended call of the thread, and the
\* operation that called trigger(); it ends a thread whose run() called it.
Raise(th) ==
    /\ lock' = NoThread
    /\ stack' = [stack EXCEPT ![th] = <<>>]
    /\ frame' = [frame EXCEPT ![th] = NoFrame]
    /\ hist' = [hist EXCEPT ![th] = NoHist]
    /\ pc' = [pc EXCEPT ![th] = IF hist[th].call.op = "timer" THEN "terminated" ELSE "idle"]

\* The rest of the loop body once event e of frame f was looked at and its
\* plan has n steps left: if not event: del self._events[self._events.index(event)].
\* called: event.trigger() was called. The thread goes on with the suspended
\* calls stk and the lock held by lk.
AfterAdvance(th, f, e, n, new_events, called, stk, lk) ==
    /\ steps' = [steps EXCEPT ![e] = n]
    /\ IF HasTrigger(e) /\ n = 0 /\ IndexOf(events, e) = 0
       THEN /\ Raise(th)
            /\ UNCHANGED events
       ELSE /\ events' = IF HasTrigger(e) /\ n = 0
                         THEN DeleteAt(events, IndexOf(events, e)) ELSE events
            /\ frame' = [frame EXCEPT ![th] =
                            [f EXCEPT !.found_new_events = @ \/ new_events, !.i = @ + 1]]
            /\ pc' = [pc EXCEPT ![th] = "events"]
            /\ stack' = [stack EXCEPT ![th] = stk]
            /\ lock' = lk
            /\ hist' = [hist EXCEPT ![th].advanced = IF called THEN Append(@, e) ELSE @]

InPass(th) == pc[th] = "events" /\ frame[th].i <= Len(frame[th].snapshot)

\* Faulty variant: the pass runs through the list from its end
eventReversed(th) == frame[th].snapshot[Len(frame[th].snapshot) + 1 - frame[th].i]

event(th) == frame[th].snapshot[frame[th].i]

\* The event is finished already (no call), or event.trigger() finds its
\* condition unsatisfied and returns nothing new.
EventQuiet(th) ==
    /\ InPass(th)
    /\ HasTrigger(event(th))
    /\ ~(ShouldTrigger(event(th)) /\ ready[event(th)])
    /\ AfterAdvance(th, frame[th], event(th), steps[event(th)], FALSE,
                    ShouldTrigger(event(th)), stack[th], lock)
    /\ UNCHANGED <<kind, ready, cond, policy, others, store>>

\* event.trigger() finds the condition satisfied, runs the step's action and
\* reports new work. The Condition of the next step is satisfied already in
\* an endless, self-feeding plan, and is yet to be satisfied in any other.
EventWork(th) ==
    /\ InPass(th)
    /\ HasTrigger(event(th))
    /\ ShouldTrigger(event(th))
    /\ ready[event(th)]
    /\ ready' = [ready EXCEPT ![event(th)] = (steps[event(th)] = Endless)]
    /\ AfterAdvance(th, frame[th], event(th), Advanced(steps[event(th)]), TRUE,
                    TRUE, stack[th], lock)
    /\ UNCHANGED <<kind, cond, policy, others, store>>

\* The step's action registers a further event, with n steps and its first
\* Condition satisfied, with add_event, which appends it and calls trigger()
\* while the outer call is suspended in the action.
EventRegisters(th, n) ==
    /\ InPass(th)
    /\ HasTrigger(event(th))
    /\ ShouldTrigger(event(th))
    /\ ready[event(th)]
    /\ EventIds \ Referenced # {}
    /\ events' = Append(events, FreshEvent)
    /\ steps' = [steps EXCEPT ![FreshEvent] = n]
    /\ kind' = [kind EXCEPT ![FreshEvent] = Normalize("Event")]
    /\ ready' = [ready EXCEPT ![FreshEvent] = TRUE]
    /\ stack' = [stack EXCEPT ![th] = Append(@, [frame |-> frame[th], event |-> event(th)])]
    /\ hist' = [hist EXCEPT ![th].advanced = Append(@, event(th))]
    /\ pc' = [pc EXCEPT ![th] = "acquire"]
    /\ UNCHANGED <<cond, lock, policy, others, store, frame>>

\* The step's action registers a further event, with n steps and its first
\* Condition satisfied, with add_event([event]), which appends it and calls
\* nothing; the action goes on.
EventAppends(th, n) ==
    /\ InPass(th)
    /\ HasTrigger(event(th))
    /\ ShouldTrigger(event(th))
    /\ ready[event(th)]
    /\ EventIds \ Referenced # {}
    /\ events' = Append(events, FreshEvent)
    /\ steps' = [steps EXCEPT ![FreshEvent] = n]
    /\ kind' = [kind EXCEPT ![FreshEvent] = "Event"]
    /\ ready' = [ready EXCEPT ![FreshEvent] = TRUE]
    /\ UNCHANGED <<cond, lock, policy, others, store, pc, frame, stack, hist>>

\* The event examined by th is finished once this iteration is through with
\* it: it was finished already or its last step is taken now.
Finishing(th) ==
    /\ InPass(th)
    /\ HasTrigger(event(th))
    /\ steps[event(th)] = 0 \/ (ready[event(th)] /\ steps[event(th)] = 1)

\* The iteration over an event that stays pending: nothing to delete.
EventKept(th) ==
    /\ ~Finishing(th)
    /\ EventQuiet(th)

EventAdvanced(th) ==
    /\ ~Finishing(th)
    /\ EventWork(th)

\* The iteration over a finishing event up to idx = self._events.index(event),
\* a step of its own: the other thread may append before the del.
EventIndexed(th) ==
    /\ Finishing(th)
    /\ IndexOf(events, event(th)) # 0
    /\ steps' = [steps EXCEPT ![event(th)] = 0]
    /\ ready' = [ready EXCEPT ![event(th)] = IF steps[event(th)] > 0 THEN FALSE ELSE @]
    /\ frame' = [frame EXCEPT ![th].found_new_events = @ \/ (steps[event(th)] > 0),
                              ![th].idx = IndexOf(events, event(th))]
    /\ hist' = [hist EXCEPT ![th].advanced =
                    IF steps[event(th)] > 0 THEN Append(@, event(th)) ELSE @]
    /\ pc' = [pc EXCEPT ![th] = "delete"]
    /\ UNCHANGED <<events, kind, cond, lock, policy, others, store, stack>>

\* del self._events[idx], and on to the next event of the pass
EventDeleted(th) ==
    /\ pc[th] = "delete"
    /\ events' = DeleteAt(events, frame[th].idx)
    /\ frame' = [frame EXCEPT ![th].i = @ + 1, ![th].idx = 0]
    /\ pc' = [pc EXCEPT ![th] = "events"]
    /\ UNCHANGED <<steps, kind, ready, cond, lock, policy, others, store, stack, hist>>

\* event.trigger() raises (the action fails, or the object is a generator and
\* has no trigger): nothing in trigger() catches it.
EventRaises(th) ==
    /\ InPass(th)
    /\ ShouldTrigger(event(th))
    /\ Raise(th)
    /\ UNCHANGED <<events, steps, kind, ready, cond, policy, others, store>>

\* Faulty variant: the budget is set anew after every pass that found new work
PassEndRenews(th) ==
    /\ pc[th] = "events"
    /\ frame[th].i > Len(frame[th].snapshot)
    /\ frame' = [frame EXCEPT ![th].found_iteration =
                    IF frame[th].found_new_events THEN MaxIterations ELSE 0]
    /\ pc' = [pc EXCEPT ![th] = "loop"]
    /\ UNCHANGED <<events, steps, kind, ready, cond, lock, policy, others, store, stack, hist>>

\* Faulty variant: a quiet pass takes one from the budget like any other
NextBudgetNeverQuiet(n, found) == n - 1

\* Faulty variant: found_iteration -= 1 left out
NextBudgetKept(n, found) == IF found THEN n ELSE 0

\* found_iteration after a pass
NextBudget(n, found) == IF found THEN n - 1 ELSE 0

\* The for loop is through: if found_new_events: found_iteration -= 1, else 0
PassEnd(th) ==
    /\ pc[th] = "events"
    /\ frame[th].i > Len(frame[th].snapshot)
    /\ frame' = [frame EXCEPT ![th].found_iteration =
                    NextBudget(@, frame[th].found_new_events)]
    /\ pc' = [pc EXCEPT ![th] = "loop"]
    /\ UNCHANGED <<events, steps, kind, ready, cond, lock, policy, others, store, stack, hist>>

----
\* The fault sweep starts: now = time.time(); for w in self.workers
SweepStart(th) ==
    /\ pc[th] = "loop"
    /\ ~LoopContinues(frame[th].found_iteration)
    /\ frame' = [frame EXCEPT ![th] = [NoFrame EXCEPT !.now = clock, !.w = 1]]
    /\ hist' = [hist EXCEPT ![th].passes = 0, ![th].sweeps = @ + 1, ![th].advanced = <<>>]
    /\ pc' = [pc EXCEPT ![th] = "sweep"]
    /\ UNCHANGED <<events, steps, kind, ready, cond, lock, policy, others, store, stack>>

AtWorker(th) == pc[th] = "sweep" /\ frame[th].w <= NumWorkers

\* Faulty variant: now - w.seen >= self._worker_dead_time
StaleAtDeadTime(w, now) ==
    /\ workers[w].state \notin {"dead", "down"}
    /\ now - workers[w].seen >= DeadTime

\* Faulty variant: a dead worker is swept again
StaleAgain(w, now) ==
    /\ workers[w].state # "down"
    /\ now - workers[w].seen > DeadTime

\* w.state not in ['dead', 'down'] and now - w.seen > self._worker_dead_time
Stale(w, now) ==
    /\ workers[w].state \notin {"dead", "down"}
    /\ now - workers[w].seen > DeadTime

\* The worker is dead or down already, or its heartbeat is recent: next worker.
SkipWorker(th) ==
    /\ AtWorker(th)
    /\ ~Stale(frame[th].w, frame[th].now)
    /\ frame' = [frame EXCEPT ![th].w = @ + 1]
    /\ UNCHANGED <<events, steps, kind, ready, cond, lock, policy, others, store, pc, stack, hist>>

\* w.command = 'kill'
KillWorker(th) ==
    /\ AtWorker(th)
    /\ Stale(frame[th].w, frame[th].now)
    /\ workers' = [workers EXCEPT ![frame[th].w].command = "kill"]
    /\ pc' = [pc EXCEPT ![th] = "mark"]
    /\ UNCHANGED <<events, steps, kind, ready, cond, lock, policy, others, tasks, clock, ticks, frame, stack, hist>>

\* Faulty variant: the if left out
PolicySetAlways == TRUE

\* if self._set_task_state_from_dead_workers:
PolicySet == policy # NoPolicy

\* Faulty variant: the orchestrator also stamps the heartbeat of the worker
MarkDeadStamps(th) ==
    /\ pc[th] = "mark"
    /\ workers' = [workers EXCEPT ![frame[th].w].state = "dead",
                                  ![frame[th].w].seen = frame[th].now]
    /\ frame' = [frame EXCEPT ![th].t = IF PolicySet THEN 1 ELSE 0]
    /\ pc' = [pc EXCEPT ![th] = IF PolicySet THEN "tasks" ELSE "clear"]
    /\ UNCHANGED <<events, steps, kind, ready, cond, lock, policy, others, tasks, clock, ticks, stack, hist>>

\* w.state = 'dead', and on to the search for abandoned tasks
MarkDead(th) ==
    /\ pc[th] = "mark"
    /\ workers' = [workers EXCEPT ![frame[th].w].state = "dead"]
    /\ frame' = [frame EXCEPT ![th].t = IF PolicySet THEN 1 ELSE 0]
    /\ pc' = [pc EXCEPT ![th] = IF PolicySet THEN "tasks" ELSE "clear"]
    /\ UNCHANGED <<events, steps, kind, ready, cond, lock, policy, others, tasks, clock, ticks, stack, hist>>

\* Faulty variant: t.worker == w left out
AbandonedAnyOwner(t, w) == tasks[t].state \in {"queued", "running"}

\* t.worker == w and t.state in ['queued', 'running']
Abandoned(t, w) ==
    /\ tasks[t].worker = w
    /\ tasks[t].state \in {"queued", "running"}

\* for t in self.tasks: if t.worker == w and t.state in [...]
CheckTask(th) ==
    /\ pc[th] = "tasks"
    /\ IF frame[th].t > NumTasks
       THEN /\ pc' = [pc EXCEPT ![th] = "clear"]
            /\ frame' = [frame EXCEPT ![th].t = 0]
       ELSE IF Abandoned(frame[th].t, frame[th].w)
       THEN /\ pc' = [pc EXCEPT ![th] = "settask"]
            /\ UNCHANGED frame
       ELSE /\ frame' = [frame EXCEPT ![th].t = @ + 1]
            /\ UNCHANGED pc
    /\ UNCHANGED <<events, steps, kind, ready, cond, lock, policy, others, store, stack, hist>>

\* Faulty variant: the orchestrator also takes the task from its worker
SetTaskStateDisowns(th) ==
    /\ pc[th] = "settask"
    /\ tasks' = [tasks EXCEPT ![frame[th].t] = [state |-> policy, worker |-> None]]
    /\ frame' = [frame EXCEPT ![th].t = @ + 1]
    /\ pc' = [pc EXCEPT ![th] = "tasks"]
    /\ UNCHANGED <<events, steps, kind, ready, cond, lock, policy, others, workers, clock, ticks, stack, hist>>

\* t.state = self._set_task_state_from_dead_workers
SetTaskState(th) ==
    /\ pc[th] = "settask"
    /\ tasks' = [tasks EXCEPT ![frame[th].t].state = policy]
    /\ frame' = [frame EXCEPT ![th].t = @ + 1]
    /\ pc' = [pc EXCEPT ![th] = "tasks"]
    /\ UNCHANGED <<events, steps, kind, ready, cond, lock, policy, others, workers, clock, ticks, stack, hist>>

\* Faulty variant: w.current = None left out
ClearCurrentForgotten(th) ==
    /\ pc[th] = "clear"
    /\ frame' = [frame EXCEPT ![th].w = @ + 1]
    /\ pc' = [pc EXCEPT ![th] = "sweep"]
    /\ UNCHANGED <<events, steps, kind, ready, cond, lock, policy, others, store, stack, hist>>

\* w.current = None, and on to the next worker
ClearCurrent(th) ==
    /\ pc[th] = "clear"
    /\ workers' = [workers EXCEPT ![frame[th].w].current = None]
    /\ frame' = [frame EXCEPT ![th].w = @ + 1]
    /\ pc' = [pc EXCEPT ![th] = "sweep"]
    /\ UNCHANGED <<events, steps, kind, ready, cond, lock, policy, others, tasks, clock, ticks, stack, hist>>

\* The thread is about to write a field of a stored Worker or Task.
AtWrite(th) ==
    \/ AtWorker(th) /\ Stale(frame[th].w, frame[th].now)
    \/ pc[th] \in {"mark", "settask", "clear"}

\* The store rejects the write: the error leaves trigger().
WriteFails(th) ==
    /\ AtWrite(th)
    /\ Raise(th)
    /\ UNCHANGED <<events, steps, kind, ready, cond, policy, others, store>>

\* The sweep is through: the with block ends, the lock is released and
\* trigger() returns, to its caller or into the event action that called it.
Returning(th) == pc[th] = "sweep" /\ frame[th].w > NumWorkers

Return(th) ==
    /\ Returning(th)
    /\ IF stack[th] = <<>>
       THEN /\ lock' = NoThread
            /\ frame' = [frame EXCEPT ![th] = NoFrame]
            /\ hist' = [hist EXCEPT ![th] =
                          IF hist[th].call.op = "add_event"
                          THEN [NoHist EXCEPT !.call =
                                   [hist[th].call EXCEPT !.returned = TRUE,
                                                         !.result = hist[th].call.handles]]
                          ELSE IF hist[th].call.op = "wait_until"
                          THEN [NoHist EXCEPT !.call = hist[th].call]
                          ELSE IF hist[th].call.op = "timer"
                          THEN [NoHist EXCEPT !.call.op = "timer"]
                          ELSE NoHist]
            /\ pc' = [pc EXCEPT ![th] =
                          IF hist[th].call.op = "wait_until" THEN "sleep"
                          ELSE IF hist[th].call.op = "add_event" THEN "returned"
                          ELSE IF hist[th].call.op = "timer" THEN "wait"
                          ELSE "idle"]
            /\ UNCHANGED <<events, steps, stack>>
       ELSE LET top == stack[th][Len(stack[th])]
            IN AfterAdvance(th, top.frame, top.event, Advanced(steps[top.event]), TRUE,
                            TRUE, SubSeq(stack[th], 1, Len(stack[th]) - 1), NoThread)
    /\ UNCHANGED <<kind, ready, cond, policy, others, store>>

\* wait_until(condition) for one callable: check_condition(c) starts.
WaitUntil(th) ==
    /\ pc[th] = "idle"
    /\ hist' = [hist EXCEPT ![th] = [NoHist EXCEPT !.call.op = "wait_until"]]
    /\ pc' = [pc EXCEPT ![th] = "poll"]
    /\ UNCHANGED <<events, steps, kind, ready, cond, lock, policy, others, store, frame, stack>>

\* Faulty variant: while c()
WaitsOnInverted(c) == c

\* while not c()
WaitsOn(c) == ~c

\* c() is evaluated: the loop body is entered with self.trigger(), or the
\* loop and wait_until end.
Poll(th) ==
    /\ pc[th] = "poll"
    /\ IF WaitsOn(cond)
       THEN /\ pc' = [pc EXCEPT ![th] = "acquire"]
            /\ hist' = [hist EXCEPT ![th].call.calls = 0,
                                    ![th].call.polls = IF @ < 2 THEN @ + 1 ELSE 2]
       ELSE /\ pc' = [pc EXCEPT ![th] = "returned"]
            /\ hist' = [hist EXCEPT ![th].call.returned = TRUE,
                                    ![th].call.polls = IF @ < 2 THEN @ + 1 ELSE 2]
    /\ UNCHANGED <<events, steps, kind, ready, cond, lock, policy, others, store, frame, stack>>

\* wait_until(condition) for a list l of callables, l[i] what callable i
\* returns at the time of the call: check_condition starts for the first.
WaitUntilList(th, l) ==
    /\ pc[th] = "idle"
    /\ conds' = l
    /\ hist' = [hist EXCEPT ![th] = [NoHist EXCEPT !.call.op = "wait_until", !.call.at = 1]]
    /\ pc' = [pc EXCEPT ![th] = "poll"]
    /\ UNCHANGED <<events, steps, kind, ready, cond, lock, policy, store, frame, stack,
                   files, models, conditions, result, configurations, current_configuration,
                   log, event_timer, stop_event, signals, timer, storage, parser>>

\* Faulty variant: while not all(c() for c in condition): after a callable
\* returned false the list is gone through from its head again
PollListFromStart(th) ==
    /\ pc[th] = "poll"
    /\ hist[th].call.at > 0
    /\ LET k == hist[th].call.at
       IN IF WaitsOn(conds[k])
          THEN /\ pc' = [pc EXCEPT ![th] = "acquire"]
               /\ hist' = [hist EXCEPT ![th].call.calls = 0,
                                       ![th].call.at = 1,
                                       ![th].call.polled = @ \cup {k}]
          ELSE /\ pc' = [pc EXCEPT ![th] = IF k = Len(conds) THEN "returned" ELSE "poll"]
               /\ hist' = [hist EXCEPT ![th].call.returned = (k = Len(conds)),
                                       ![th].call.at = IF k = Len(conds) THEN k ELSE k + 1,
                                       ![th].call.polled = @ \cup {k},
                                       ![th].call.observed = @ \cup {k}]
    /\ UNCHANGED <<events, steps, kind, ready, cond, lock, policy, others, store, frame, stack>>

\* check_condition(c) for the callable at position at of the list: c() is
\* called; false, the loop body is entered with self.trigger(); true,
\* check_condition returns and the list comprehension goes on to the next
\* callable, or wait_until returns after the last.
PollList(th) ==
    /\ pc[th] = "poll"
    /\ hist[th].call.at > 0
    /\ LET k == hist[th].call.at
       IN IF WaitsOn(conds[k])
          THEN /\ pc' = [pc EXCEPT ![th] = "acquire"]
               /\ hist' = [hist EXCEPT ![th].call.calls = 0,
                                       ![th].call.polled = @ \cup {k}]
          ELSE /\ pc' = [pc EXCEPT ![th] = IF k = Len(conds) THEN "returned" ELSE "poll"]
               /\ hist' = [hist EXCEPT ![th].call.returned = (k = Len(conds)),
                                       ![th].call.at = IF k = Len(conds) THEN k ELSE k + 1,
                                       ![th].call.polled = @ \cup {k},
                                       ![th].call.observed = @ \cup {k}]
    /\ UNCHANGED <<events, steps, kind, ready, cond, lock, policy, others, store, frame, stack>>

\* What callable i of the list returns changes.
FlipAt(i) ==
    /\ i \in 1..Len(conds)
    /\ conds' = [conds EXCEPT ![i] = ~@]
    /\ UNCHANGED <<events, steps, kind, ready, cond, lock, policy, store, pc, frame, stack, hist,
                   files, models, conditions, result, configurations, current_configuration,
                   log, event_timer, stop_event, signals, timer, storage, parser>>

\* add_event or wait_until has returned and its caller goes on.
Resume(th) ==
    /\ pc[th] = "returned"
    /\ pc' = [pc EXCEPT ![th] = "idle"]
    /\ hist' = [hist EXCEPT ![th] = NoHist]
    /\ UNCHANGED <<events, steps, kind, ready, cond, lock, policy, others, store, frame, stack>>

\* time.sleep(5.0), and back to the head of the loop
Sleep(th) ==
    /\ pc[th] = "sleep"
    /\ pc' = [pc EXCEPT ![th] = "poll"]
    /\ UNCHANGED <<events, steps, kind, ready, cond, lock, policy, others, store, frame, stack, hist>>

----
\* The timer threads started so far: each got the threading.Event made
\* with it, the Events numbered in the order run() makes them.
Started == {th \in Timers : timer[th].stopped # None}

\* Faulty variant: run() without if not self._event_timer
RunAlways(th) == TRUE

\* if not self._event_timer
RunStarts(th) == event_timer = NoThread

\* run(): if no timer is kept, a new threading.Event and a new
\* EventTriggerTimer are made and the thread is started; with a timer kept
\* run() returns at once. No more than MaxRuns threads are started.
Run(th) ==
    /\ pc[th] = "idle"
    /\ RunStarts(th) => Cardinality(Started) < MaxRuns
    /\ IF RunStarts(th)
       THEN LET n == Cardinality(Started) + 1
            IN /\ stop_event' = n
               /\ timer' = [timer EXCEPT ![Timer(n)].stopped = n]
               /\ event_timer' = Timer(n)
               /\ pc' = [pc EXCEPT ![Timer(n)] = "wait", ![th] = "returned"]
               /\ hist' = [hist EXCEPT ![Timer(n)] = [NoHist EXCEPT !.call.op = "timer"],
                                       ![th] = [NoHist EXCEPT !.call.op = "run"]]
       ELSE /\ pc' = [pc EXCEPT ![th] = "returned"]
            /\ hist' = [hist EXCEPT ![th] = [NoHist EXCEPT !.call.op = "run"]]
            /\ UNCHANGED <<stop_event, timer, event_timer>>
    /\ UNCHANGED <<events, steps, kind, ready, cond, lock, policy, store, frame, stack,
                   files, models, conditions, result, configurations, current_configuration,
                   log, signals, storage, conds, parser>>

\* self.stop() called by op (stop itself, or close): if self._event_timer:
\* self._stop_event.set(); with no timer kept stop() returns at once.
StopCalled(th, op) ==
    /\ hist' = [hist EXCEPT ![th] = [NoHist EXCEPT !.call.op = op]]
    /\ IF event_timer # NoThread
       THEN /\ signals' = signals \cup {stop_event}
            /\ pc' = [pc EXCEPT ![th] = "stopping"]
       ELSE /\ pc' = [pc EXCEPT ![th] = IF op = "close" THEN "closing" ELSE "returned"]
            /\ UNCHANGED signals
    /\ UNCHANGED <<events, steps, kind, ready, cond, lock, policy, store, frame, stack,
                   files, models, conditions, result, configurations, current_configuration,
                   log, event_timer, stop_event, timer, storage, conds, parser>>

\* self._event_timer = None; self._stop_event = None, and stop() returns
StopReturns(th) ==
    /\ pc[th] = "stopping"
    /\ event_timer' = NoThread
    /\ stop_event' = None
    /\ pc' = [pc EXCEPT ![th] = IF hist[th].call.op = "close" THEN "closing" ELSE "returned"]
    /\ UNCHANGED <<events, steps, kind, ready, cond, lock, policy, store, frame, stack, hist,
                   files, models, conditions, result, configurations, current_configuration,
                   log, signals, timer, storage, conds, parser>>

\* stop()
StopSet(th) ==
    /\ pc[th] = "idle"
    /\ StopCalled(th, "stop")

\* close(): self.stop()
Close(th) ==
    /\ pc[th] = "idle"
    /\ StopCalled(th, "close")

\* close(): self._close_db(), which is self.storage.close(); close() returns
\* and the caller makes no call on the closed project.
CloseDb(th) ==
    /\ pc[th] = "closing"
    /\ storage' = "closed"
    /\ pc' = [pc EXCEPT ![th] = "closed"]
    /\ UNCHANGED <<events, steps, kind, ready, cond, lock, policy, store, frame, stack, hist,
                   files, models, conditions, result, configurations, current_configuration,
                   log, event_timer, stop_event, signals, timer, conds, parser>>

\* self.stopped.wait(5.0): true once the flag of the thread's Event is set
Stopped(th) == timer[th].stopped \in signals

\* EventTriggerTimer.run: while not self.stopped.wait(5.0): self.project.trigger()
TimerWait(th) ==
    /\ pc[th] = "wait"
    /\ IF Stopped(th)
       THEN /\ pc' = [pc EXCEPT ![th] = "terminated"]
            /\ hist' = [hist EXCEPT ![th] = NoHist]
       ELSE /\ pc' = [pc EXCEPT ![th] = "acquire"]
            /\ UNCHANGED hist
    /\ UNCHANGED <<events, steps, kind, ready, cond, lock, policy, others, store, frame, stack>>

----
\* The store outside a trigger() cycle: the clock, the Worker processes and
\* the workflow write it while no cycle is in progress.
Quiet == lock = NoThread

\* Time passes: d seconds.
Pass(d) ==
    /\ ticks < MaxTicks
    /\ clock' = clock + d
    /\ ticks' = ticks + 1
    /\ UNCHANGED <<events, steps, kind, ready, cond, lock, policy, others, workers, tasks, pc, frame, stack, hist>>

Tick(d) == Quiet /\ Pass(d)

Alive(w) == workers[w].state \in {"idle", "running"}

\* A live Worker refreshes its heartbeat.
Beat(w) ==
    /\ Alive(w)
    /\ workers[w].seen < clock
    /\ workers' = [workers EXCEPT ![w].seen = clock]
    /\ UNCHANGED <<events, steps, kind, ready, cond, lock, policy, others, tasks, clock, ticks, pc, frame, stack, hist>>

Heartbeat(w) == Quiet /\ Beat(w)

\* created -> queued: the workflow queues a Task (again).
Queue(t) ==
    /\ tasks[t].state = "created"
    /\ tasks' = [tasks EXCEPT ![t].state = "queued"]
    /\ UNCHANGED <<events, steps, kind, ready, cond, lock, policy, others, workers, clock, ticks, pc, frame, stack, hist>>

Enqueue(t) == Quiet /\ Queue(t)

\* queued -> running: an idle Worker claims a queued Task.
Take(w, t) ==
    /\ workers[w].state = "idle"
    /\ tasks[t].state = "queued"
    /\ tasks' = [tasks EXCEPT ![t] = [state |-> "running", worker |-> w]]
    /\ workers' = [workers EXCEPT ![w].state = "running", ![w].current = t]
    /\ UNCHANGED <<events, steps, kind, ready, cond, lock, policy, others, clock, ticks, pc, frame, stack, hist>>

Claim(w, t) == Quiet /\ Take(w, t)

\* running -> success | fail: the process of Worker w reports the end of the
\* Task it runs; it goes back to idle unless the store has it as dead.
Report(w, t, s) ==
    /\ workers[w].state \in {"running", "dead"}
    /\ tasks[t].state = "running"
    /\ tasks[t].worker = w
    /\ tasks' = [tasks EXCEPT ![t].state = s]
    /\ workers' = IF workers[w].state = "running"
                  THEN [workers EXCEPT ![w].state = "idle", ![w].current = None]
                  ELSE workers
    /\ UNCHANGED <<events, steps, kind, ready, cond, lock, policy, others, clock, ticks, pc, frame, stack, hist>>

Finish(w, t, s) ==
    /\ Quiet
    /\ workers[w].state = "running"
    /\ workers[w].current = t
    /\ Report(w, t, s)

\* An idle Worker shuts down by itself.
Exit(w) ==
    /\ workers[w].state = "idle"
    /\ workers' = [workers EXCEPT ![w].state = "down"]
    /\ UNCHANGED <<events, steps, kind, ready, cond, lock, policy, others, tasks, clock, ticks, pc, frame, stack, hist>>

Shutdown(w) == Quiet /\ Exit(w)

\* The Condition event e waits for comes to check true: the store has changed.
Satisfy(e) ==
    /\ e \in Range(events)
    /\ HasTrigger(e)
    /\ Pending(e)
    /\ ~ready[e]
    /\ ready' = [ready EXCEPT ![e] = TRUE]
    /\ UNCHANGED <<events, steps, kind, cond, lock, policy, others, store, pc, frame, stack, hist>>

\* What the callable given to wait_until returns changes.
Flip ==
    /\ cond' = ~cond
    /\ UNCHANGED <<events, steps, kind, ready, lock, policy, others, store, pc, frame, stack, hist>>

----
\* self.trajectories = self._all_trajectories.v(lambda x: x.exists), where
\* self._all_trajectories = self.files.c(Trajectory): the stored files of type
\* Trajectory whose exists flag is set; len() of the view.
trajectories == files[[type |-> "Trajectory", exists |-> TRUE]]

Stored == files[[type |-> "Trajectory", exists |-> TRUE]]
          + files[[type |-> "Trajectory", exists |-> FALSE]]
          + files[[type |-> "File", exists |-> TRUE]]

\* A file is stored in the project.
AddFile(x) ==
    /\ Stored < MaxFiles
    /\ files' = [files EXCEPT ![x] = @ + 1]
    /\ UNCHANGED <<events, steps, kind, ready, cond, lock, policy, store, pc, frame, stack, hist,
                   models, conditions, result, configurations, current_configuration, log,
                   event_timer, stop_event, signals, timer, storage, conds, parser>>

\* The files of a stored Trajectory come to exist.
Written ==
    /\ files[[type |-> "Trajectory", exists |-> FALSE]] > 0
    /\ files' = [files EXCEPT ![[type |-> "Trajectory", exists |-> FALSE]] = @ - 1,
                              ![[type |-> "Trajectory", exists |-> TRUE]] = @ + 1]
    /\ UNCHANGED <<events, steps, kind, ready, cond, lock, policy, store, pc, frame, stack, hist,
                   models, conditions, result, configurations, current_configuration, log,
                   event_timer, stop_event, signals, timer, storage, conds, parser>>

\* A model is stored in the project.
AddModel ==
    /\ models < MaxModels
    /\ models' = models + 1
    /\ UNCHANGED <<events, steps, kind, ready, cond, lock, policy, store, pc, frame, stack, hist,
                   files, conditions, result, configurations, current_configuration, log,
                   event_timer, stop_event, signals, timer, storage, conds, parser>>

\* NTrajectories(project, number) or NModels(project, number): the first
\* condition object of the workflow.
NewCondition(class, project, number) ==
    /\ conditions = <<>>
    /\ conditions' = <<[class |-> class, project |-> project, number |-> number]>>
    /\ UNCHANGED <<events, steps, kind, ready, cond, lock, policy, store, pc, frame, stack, hist,
                   files, models, result, configurations, current_configuration, log,
                   event_timer, stop_event, signals, timer, storage, conds, parser>>

\* Faulty variant: more than n
checkStrict(c) ==
    IF c.class = "NTrajectories" THEN trajectories > c.number ELSE models > c.number

\* NTrajectories.check: len(self.project.trajectories) >= self.number
\* NModels.check: len(self.project.models) >= self.number
check(c) ==
    IF c.class = "NTrajectories" THEN trajectories >= c.number ELSE models >= c.number

\* check() is called on a condition of this project.
Check(i) ==
    /\ i \in 1..Len(conditions)
    /\ conditions[i].project = "self"
    /\ result' = [NoResult EXCEPT !.op = "check", !.on = i,
                                  !.value = IF check(conditions[i]) THEN "True" ELSE "False"]
    /\ UNCHANGED <<events, steps, kind, ready, cond, lock, policy, store, pc, frame, stack, hist,
                   files, models, conditions, configurations, current_configuration, log,
                   event_timer, stop_event, signals, timer, storage, conds, parser>>

\* isinstance(other, int): a bool is an int
IsInt(x) == x.type \in {"int", "bool"}

\* NTrajectories(self.project, self.number + other), NModels likewise
Sum(c, x) == [class |-> c.class, project |-> c.project, number |-> c.number + x.value]

\* Faulty variant: self.number += other; return self
AddInPlace(i, x) ==
    /\ i \in 1..Len(conditions)
    /\ IF IsInt(x)
       THEN /\ conditions' = [conditions EXCEPT ![i] = Sum(conditions[i], x)]
            /\ result' = [op |-> "add", on |-> i, arg |-> x, value |-> "Condition", ref |-> i]
       ELSE /\ result' = [op |-> "add", on |-> i, arg |-> x, value |-> "NotImplemented",
                          ref |-> 0]
            /\ UNCHANGED conditions
    /\ UNCHANGED <<events, steps, kind, ready, cond, lock, policy, store, pc, frame, stack, hist,
                   files, models, configurations, current_configuration, log,
                   event_timer, stop_event, signals, timer, storage, conds, parser>>

\* condition.__add__(other): a new condition object, or NotImplemented
Add(i, x) ==
    /\ i \in 1..Len(conditions)
    /\ IF IsInt(x)
       THEN /\ Len(conditions) < MaxConditions
            /\ conditions' = Append(conditions, Sum(conditions[i], x))
            /\ result' = [op |-> "add", on |-> i, arg |-> x, value |-> "Condition",
                          ref |-> Len(conditions) + 1]
       ELSE /\ result' = [op |-> "add", on |-> i, arg |-> x, value |-> "NotImplemented",
                          ref |-> 0]
            /\ UNCHANGED conditions
    /\ UNCHANGED <<events, steps, kind, ready, cond, lock, policy, store, pc, frame, stack, hist,
                   files, models, configurations, current_configuration, log,
                   event_timer, stop_event, signals, timer, storage, conds, parser>>

----
\* self.configurations.add(c): a configuration is stored, as
\* read_configurations does it or as the store holds it when the project opens.
AddConfiguration(name, current) ==
    /\ pc["main"] = "idle"
    /\ Len(configurations) < MaxConfigs
    /\ configurations' = Append(configurations, [name |-> name, current |-> current])
    /\ UNCHANGED <<events, steps, kind, ready, cond, lock, policy, store, pc, frame, stack, hist,
                   files, models, conditions, result, current_configuration, log,
                   event_timer, stop_event, signals, timer, storage, conds, parser>>

\* self.configurations.a('name', n): the positions of the stored
\* configurations named n, in bundle order
Named(n) ==
    SelectSeq([i \in 1..Len(configurations) |-> i],
              LAMBDA i : configurations[i].name = n)

\* self.configurations.m('current', True): the positions of the stored
\* configurations flagged current, in bundle order
Current ==
    SelectSeq([i \in 1..Len(configurations) |-> i],
              LAMBDA i : configurations[i].current)

\* cfg, as the chain of conditions at the head of set_current_configuration
\* makes it (<<>> also where the code leaves cfg None)
Selected(configuration) ==
    IF configuration.kind = "Configuration" THEN <<configuration.at>>
    ELSE IF configuration.kind = "str" THEN Named(configuration.name)
    ELSE IF Len(configurations) = 1 THEN <<1>>
    ELSE IF Current = <<>> THEN Named("local.localhost")
    ELSE Current

\* Faulty variant: the first match is taken
SingleOrFirst(cfg) == Len(cfg) >= 1

\* if len(cfg) == 1
Single(cfg) == Len(cfg) = 1

\* set_current_configuration(configuration)
SetCurrentConfiguration(configuration) ==
    /\ pc["main"] = "idle"
    /\ configuration.at <= Len(configurations)
    /\ LET cfg == Selected(configuration)
       IN IF cfg # <<>>
          THEN IF Single(cfg)
               THEN /\ configurations' =
                        [i \in 1..Len(configurations) |->
                            [configurations[i] EXCEPT !.current = (i = cfg[1])]]
                    /\ current_configuration' = cfg[1]
                    /\ log' = [call |-> configuration, errors |-> <<>>]
               ELSE /\ log' = [call |-> configuration, errors |-> <<Ambiguous>>]
                    /\ UNCHANGED <<configurations, current_configuration>>
          ELSE /\ log' = [call |-> configuration, errors |-> Missing]
               /\ UNCHANGED current_configuration
               \* self.configurations.a("name", "summit").one.current = True: any one
               \* of them, and an AttributeError if there is none
               /\ IF Named("summit") = <<>>
                  THEN UNCHANGED configurations
                  ELSE \E j \in 1..Len(Named("summit")) :
                          configurations' =
                              [configurations EXCEPT ![Named("summit")[j]].current = TRUE]
    /\ UNCHANGED <<events, steps, kind, ready, cond, lock, policy, store, pc, frame, stack, hist,
                   files, models, conditions, result, event_timer, stop_event, signals, timer, storage, conds, parser>>

----
\* Every plan length add_event is given here; Endless is a generator that
\* never runs out.
Plans == (1..MaxSteps) \cup {Endless}

\* What add_event is given: an Event or a generator (k) with a plan of n steps
\* left, none if it is finished already, and a first Condition that checks r.
Registrable == {x \in [k : Inputs, n : 0..MaxSteps, r : BOOLEAN] : x.r => x.n > 0}

\* The lists and tuples add_event is given, of events that are finished or
\* have their Condition satisfied.
Lists == UNION {[1..m -> {x \in Registrable : x.r = (x.n > 0)}] : m \in 1..MaxList}

\* The Events of a workflow in which nothing satisfies a Condition later: the
\* Conditions of an endless plan are satisfied all along, the Condition of
\* any other is satisfied when the event is registered or never.
Workflow == {x \in [n : Plans, r : BOOLEAN] : x.n = Endless => x.r}

\* The orchestrator with the events of such a workflow, over a store that
\* takes every write and in which only the orchestrator writes.
Next ==
    \E th \in Threads :
        \/ CallTrigger(th)
        \/ \E x \in Workflow : AddEvent(th, "Event", x.n, x.r)
        \/ Acquire(th)
        \/ PassStart(th)
        \/ EventQuiet(th)
        \/ EventWork(th)
        \/ \E n \in Plans : EventRegisters(th, n)
        \/ EventRaises(th)
        \/ PassEnd(th)
        \/ SweepStart(th)
        \/ SkipWorker(th)
        \/ KillWorker(th)
        \/ MarkDead(th)
        \/ CheckTask(th)
        \/ SetTaskState(th)
        \/ ClearCurrent(th)
        \/ Return(th)
        \/ Resume(th)

Spec == Init /\ [][Next]_vars

\* The orchestrator with workflow events of every kind, finished or with
\* steps left and a Condition that is satisfied or not yet, registered one at
\* a time or as a list.
NextEvents ==
    \/ \E th \in Threads :
        \/ CallTrigger(th)
        \/ \E x \in Registrable : AddEvent(th, x.k, x.n, x.r)
        \/ \E l \in Lists : AddEventList(th, l)
        \/ Acquire(th)
        \/ PassStart(th)
        \/ EventQuiet(th)
        \/ EventWork(th)
        \/ EventRaises(th)
        \/ PassEnd(th)
        \/ SweepStart(th)
        \/ SkipWorker(th)
        \/ KillWorker(th)
        \/ MarkDead(th)
        \/ CheckTask(th)
        \/ SetTaskState(th)
        \/ ClearCurrent(th)
        \/ Return(th)
        \/ Resume(th)
    \/ \E e \in EventIds : Satisfy(e)

SpecEvents == Init /\ [][NextEvents]_vars

\* The callable given to wait_until returns true or false at the start.
InitWait == Construct(DeadTime + 1) /\ policy = "created" /\ cond \in BOOLEAN

\* Threads that call wait_until and trigger(), with no workflow event
\* registered, while what the callable returns changes at any time.
NextWait ==
    \/ \E th \in Threads :
        \/ WaitUntil(th)
        \/ Poll(th)
        \/ Sleep(th)
        \/ CallTrigger(th)
        \/ Acquire(th)
        \/ PassStart(th)
        \/ PassEnd(th)
        \/ SweepStart(th)
        \/ SkipWorker(th)
        \/ KillWorker(th)
        \/ MarkDead(th)
        \/ CheckTask(th)
        \/ SetTaskState(th)
        \/ ClearCurrent(th)
        \/ Return(th)
        \/ Resume(th)
    \/ Flip

SpecWait == InitWait /\ [][NextWait]_vars

\* The lists of callables wait_until is given, by what each returns at first.
Callables == UNION {[1..m -> BOOLEAN] : m \in 1..MaxList}

\* A caller of wait_until with a list, and a driver that calls trigger(),
\* while what the callables return changes at any time.
NextWaitList ==
    \/ \E l \in Callables : WaitUntilList("main", l)
    \/ PollList("main")
    \/ Sleep("main")
    \/ Resume("main")
    \/ CallTrigger("driver")
    \/ \E i \in 1..MaxList : FlipAt(i)
    \/ \E th \in Threads :
        \/ Acquire(th)
        \/ PassStart(th)
        \/ PassEnd(th)
        \/ SweepStart(th)
        \/ SkipWorker(th)
        \/ KillWorker(th)
        \/ MarkDead(th)
        \/ CheckTask(th)
        \/ SetTaskState(th)
        \/ ClearCurrent(th)
        \/ Return(th)

SpecWaitList == Init /\ [][NextWaitList]_vars

\* parse_cfg_file over every file of up to MaxLines lines
NextParse ==
    \/ \E line \in Lines : ReadLine(line)
    \/ EndOfFile

SpecParse == Init /\ [][NextParse]_vars

\* The project opened at time 0 with any dead-worker policy.
InitSweep == Construct(0) /\ policy \in Policies /\ cond = FALSE

\* The background driver alone, with no workflow event registered, over a
\* store that may reject a write and that the Workers, the workflow and the
\* clock change between the cycles.
NextSweep ==
    \/ CallTrigger("driver")
    \/ Acquire("driver")
    \/ PassStart("driver")
    \/ PassEnd("driver")
    \/ SweepStart("driver")
    \/ SkipWorker("driver")
    \/ KillWorker("driver")
    \/ MarkDead("driver")
    \/ CheckTask("driver")
    \/ SetTaskState("driver")
    \/ ClearCurrent("driver")
    \/ WriteFails("driver")
    \/ Return("driver")
    \/ \E d \in {DeadTime, DeadTime + 1} : Tick(d)
    \/ \E w \in Workers : Heartbeat(w)
    \/ \E t \in Tasks : Enqueue(t)
    \/ \E w \in Workers, t \in Tasks : Claim(w, t)
    \/ \E w \in Workers, t \in Tasks, s \in Reported : Finish(w, t, s)
    \/ \E w \in Workers : Shutdown(w)

SpecSweep == InitSweep /\ [][NextSweep]_vars

\* One cycle of the background driver.
DriverNext ==
    \/ CallTrigger("driver")
    \/ Acquire("driver")
    \/ PassStart("driver")
    \/ PassEnd("driver")
    \/ SweepStart("driver")
    \/ SkipWorker("driver")
    \/ KillWorker("driver")
    \/ MarkDead("driver")
    \/ CheckTask("driver")
    \/ SetTaskState("driver")
    \/ ClearCurrent("driver")
    \/ Return("driver")

\* The Worker processes, the workflow and the clock, at any time.
StoreNext ==
    \/ \E d \in {DeadTime, DeadTime + 1} : Pass(d)
    \/ \E w \in Workers : Beat(w)
    \/ \E t \in Tasks : Queue(t)
    \/ \E w \in Workers, t \in Tasks : Take(w, t)
    \/ \E w \in Workers, t \in Tasks, s \in Reported : Report(w, t, s)
    \/ \E w \in Workers : Exit(w)

\* The background driver over a store that the Worker processes write while
\* a cycle is in progress: the orchestrator lock does not hold them back.
NextRace == DriverNext \/ StoreNext

SpecRace == InitSweep /\ [][NextRace]_vars

\* The background driver keeps calling trigger(), over a store that takes
\* every write and that the Workers, the workflow and the clock change between
\* the cycles.
NextCycles ==
    \/ DriverNext
    \/ \E d \in {DeadTime, DeadTime + 1} : Tick(d)
    \/ \E w \in Workers : Heartbeat(w)
    \/ \E t \in Tasks : Enqueue(t)
    \/ \E w \in Workers, t \in Tasks : Claim(w, t)
    \/ \E w \in Workers, t \in Tasks, s \in Reported : Finish(w, t, s)
    \/ \E w \in Workers : Shutdown(w)

\* The timer thread runs until it is stopped: every cycle it starts ends and
\* another one follows.
SpecLive == InitSweep /\ [][NextCycles]_vars /\ WF_vars(DriverNext)

\* The steps of a trigger() call of thread th, from the wait for the lock to
\* the return, with what the actions of the advanced events do.
CallNext(th) ==
    \/ Acquire(th)
    \/ PassStart(th)
    \/ EventQuiet(th)
    \/ EventWork(th)
    \/ \E n \in Plans : EventAppends(th, n)
    \/ \E n \in Plans : EventRegisters(th, n)
    \/ EventRaises(th)
    \/ PassEnd(th)
    \/ SweepStart(th)
    \/ SkipWorker(th)
    \/ KillWorker(th)
    \/ MarkDead(th)
    \/ CheckTask(th)
    \/ SetTaskState(th)
    \/ ClearCurrent(th)
    \/ Return(th)

NextChain ==
    \/ CallTrigger("driver")
    \/ \E x \in Workflow : AddEvent("main", "Event", x.n, x.r)
    \/ Resume("main")
    \/ \E th \in Threads : CallNext(th)

\* The background driver calls trigger() and the caller's thread add_event,
\* over events whose actions register further events. A thread that is in a call goes on with it, and a thread
\* that waits for the lock gets it if the lock is released again and again.
SpecChain ==
    /\ Init
    /\ [][NextChain]_vars
    /\ \A th \in Threads : WF_vars(CallNext(th)) /\ SF_vars(Acquire(th))

\* The caller's thread starts and stops background drivers; every timer
\* thread calls trigger() after every wait, with no workflow event
\* registered, over a store that may reject a write.
TimerNext(th) ==
    \/ TimerWait(th)
    \/ Acquire(th)
    \/ PassStart(th)
    \/ PassEnd(th)
    \/ SweepStart(th)
    \/ SkipWorker(th)
    \/ KillWorker(th)
    \/ MarkDead(th)
    \/ CheckTask(th)
    \/ SetTaskState(th)
    \/ ClearCurrent(th)
    \/ WriteFails(th)
    \/ Return(th)

NextRun ==
    \/ Run("main")
    \/ StopSet("main")
    \/ StopReturns("main")
    \/ Resume("main")
    \/ \E th \in Timers : TimerNext(th)

SpecRun == Init /\ [][NextRun]_vars

\* The caller registers workflow events and calls trigger() while the
\* background driver runs; an event action may raise and the store may
\* reject a write.
Callers == {"main"} \cup Timers

NextRaise ==
    \/ Run("main")
    \/ Resume("main")
    \/ CallTrigger("main")
    \/ \E x \in Workflow : AddEvent("main", "Event", x.n, x.r)
    \/ \E th \in Timers : TimerWait(th)
    \/ \E th \in Callers :
        \/ Acquire(th)
        \/ PassStart(th)
        \/ EventQuiet(th)
        \/ EventWork(th)
        \/ EventRaises(th)
        \/ PassEnd(th)
        \/ SweepStart(th)
        \/ SkipWorker(th)
        \/ KillWorker(th)
        \/ MarkDead(th)
        \/ CheckTask(th)
        \/ SetTaskState(th)
        \/ ClearCurrent(th)
        \/ WriteFails(th)
        \/ Return(th)

SpecRaise == Init /\ [][NextRaise]_vars

\* The caller registers workflow events with add_event while the driver
\* calls trigger(); idx = self._events.index(event) and del self._events[idx]
\* are two steps, and the append of add_event may come between them.
NextAppend ==
    \/ CallTrigger("driver")
    \/ Resume("main")
    \/ \E x \in Workflow : AddEvent("main", "Event", x.n, x.r)
    \/ \E e \in EventIds : Satisfy(e)
    \/ \E th \in Threads :
        \/ Acquire(th)
        \/ PassStart(th)
        \/ EventKept(th)
        \/ EventAdvanced(th)
        \/ EventIndexed(th)
        \/ EventDeleted(th)
        \/ PassEnd(th)
        \/ SweepStart(th)
        \/ SkipWorker(th)
        \/ KillWorker(th)
        \/ MarkDead(th)
        \/ CheckTask(th)
        \/ SetTaskState(th)
        \/ ClearCurrent(th)
        \/ Return(th)

SpecAppend == Init /\ [][NextAppend]_vars

\* The same, and the caller closes the project at some point.
NextClose ==
    \/ Run("main")
    \/ StopSet("main")
    \/ StopReturns("main")
    \/ Resume("main")
    \/ Close("main")
    \/ CloseDb("main")
    \/ \E th \in Timers : TimerNext(th)

SpecClose == Init /\ [][NextClose]_vars

\* The condition objects of a workflow over the bundles of the project, while
\* files and models are stored.
NextConditions ==
    \/ \E x \in FileSorts : AddFile(x)
    \/ Written
    \/ AddModel
    \/ \E class \in Classes, project \in Projects, number \in 0..MaxNumber :
            NewCondition(class, project, number)
    \/ \E i \in 1..MaxConditions : Check(i)
    \/ \E i \in 1..MaxConditions, x \in Addends : Add(i, x)

SpecConditions == Init /\ [][NextConditions]_vars

\* The caller's thread stores configurations, selects the current one and
\* registers lists of events.
NextConfig ==
    \/ \E name \in StoredNames, current \in BOOLEAN : AddConfiguration(name, current)
    \/ \E configuration \in Selections : SetCurrentConfiguration(configuration)
    \/ \E l \in Lists : AddEventList("main", l)
    \/ Resume("main")

SpecConfig == Init /\ [][NextConfig]_vars

----
\* A thread is inside the with block of trigger(): in the event loop or the
\* sweep, or suspended there in an event action.
InBody(th) == pc[th] \in Body \/ stack[th] # <<>>

\* Worker w was neither dead nor down and its heartbeat was older than
\* dead_time when the call of th swept.
WasStale(th, w) ==
    /\ hist[th].workers[w].state \notin {"dead", "down"}
    /\ frame[th].now - hist[th].workers[w].seen > DeadTime

\* Task t was queued or running and owned by w when the call of th started.
WasAbandoned(th, t, w) ==
    /\ hist[th].tasks[t].worker = w
    /\ hist[th].tasks[t].state \in {"queued", "running"}

\* C1: in one trigger() call the event loop makes at most 50 passes over the
\* registered events, however many events report new work on every pass.
C1_AtMostFiftyPasses == \A th \in Threads : hist[th].passes <= MaxIterations

\* C1 witness: the 50th pass still found new work and used the budget up.
C1_BudgetUsedUp ==
    \E th \in Threads :
        /\ pc[th] = "loop"
        /\ hist[th].passes = MaxIterations
        /\ frame[th].found_new_events
        /\ frame[th].found_iteration = 0
        /\ events # <<>>

\* C2: a trigger() call that returns normally leaves every Worker that was
\* stale (neither dead nor down, now - seen > dead_time) when it swept with
\* state 'dead', command 'kill' and current None.
C2_StaleWorkerMarkedDead ==
    \A th \in Threads :
        Returning(th) =>
            \A w \in Workers :
                WasStale(th, w) =>
                    /\ workers[w].state = "dead"
                    /\ workers[w].command = "kill"
                    /\ workers[w].current = None

\* C2 witness: the call returns having swept a stale Worker that was running a Task.
C2_SweptRunningWorker ==
    \E th \in Threads, w \in Workers :
        /\ Returning(th)
        /\ WasStale(th, w)
        /\ hist[th].workers[w].state = "running"
        /\ hist[th].workers[w].current # None
        /\ hist[th].workers[w].command # "kill"

\* C3: with a dead-worker policy set, a trigger() call that returns normally
\* has set to the policy value exactly the Tasks that were queued or running
\* and owned by a Worker it marked dead; every other Task keeps its state.
C3_ExactlyAbandonedTasks ==
    \A th \in Threads :
        (Returning(th) /\ PolicySet) =>
            \A t \in Tasks :
                tasks[t].state =
                    IF \E w \in Workers : WasStale(th, w) /\ WasAbandoned(th, t, w)
                    THEN policy
                    ELSE hist[th].tasks[t].state

\* C3 witness: one Task of the dead Worker was set to the policy value while a
\* running Task of a live Worker and a finished Task of the dead one kept theirs.
C3_OneSetOneKept ==
    \E th \in Threads, w \in Workers, t \in Tasks, u \in Tasks :
        /\ Returning(th) /\ PolicySet
        /\ WasStale(th, w) /\ WasAbandoned(th, t, w)
        /\ tasks[t].state = policy
        /\ hist[th].tasks[t].state # policy
        /\ u # t
        /\ hist[th].tasks[u].state = "running"
        /\ hist[th].tasks[u].worker # w
        /\ tasks[u].state = "running"

\* C4: a trigger() call that starts with Worker w already dead changes the
\* state of no Task that references w, also of one that is queued or running again.
C4_DeadWorkerTasksKept ==
    \A th \in Threads :
        Returning(th) =>
            \A t \in Tasks :
                (/\ hist[th].tasks[t].worker # None
                 /\ hist[th].workers[hist[th].tasks[t].worker].state = "dead")
                    => tasks[t].state = hist[th].tasks[t].state

\* C4 witness: the Task of a Worker marked dead by an earlier call was queued
\* again, and a later call returns with the Task still queued.
C4_RequeuedTaskKept ==
    \E th \in Threads, t \in Tasks :
        /\ Returning(th)
        /\ hist[th].tasks[t].worker # None
        /\ hist[th].workers[hist[th].tasks[t].worker].state = "dead"
        /\ hist[th].workers[hist[th].tasks[t].worker].command = "kill"
        /\ hist[th].tasks[t].state = "queued"
        /\ tasks[t].state = "queued"
        /\ PolicySet

\* C5: at most one thread is inside the body of trigger() at any time; a second
\* caller waits at the lock until the first has left.
C5_OneThreadInBody ==
    \A a \in Threads, b \in Threads : (a # b /\ InBody(a)) => ~InBody(b)

\* C5 witness: one thread is in the body while the other waits for the lock.
C5_SecondCallerWaits ==
    \E a \in Threads, b \in Threads :
        /\ a # b
        /\ InBody(a)
        /\ pc[b] = "acquire"
        /\ lock = a

\* C6: a trigger() call that an event action starts through add_event does not
\* deadlock: no thread waits for the lock it holds itself.
C6_NoSelfDeadlock == \A th \in Threads : ~(pc[th] = "acquire" /\ lock = th)

\* C7: an error raised while an event is advanced is caught: no step takes a
\* thread from the event loop out of trigger().
C7_EventErrorCaught ==
    [][\A th \in Threads : pc[th] = "events" => pc'[th] \in Body \cup {"acquire"}]_vars

\* C8: a failing write for one stale Worker does not keep the call from
\* sweeping the others: when a call leaves the sweep, every Worker other than
\* the one it was at has been swept.
C8_OtherWorkersSwept ==
    [][\A th \in Threads :
          (pc[th] \in {"sweep", "mark", "tasks", "settask", "clear"} /\ pc'[th] \notin Body)
              => \A w \in Workers \ {frame[th].w} : ~Stale(w, frame[th].now)]_vars

\* C9: a sweep that a failing write cut short is completed by the next call:
\* with a policy set, a trigger() call that returns normally leaves no dead
\* Worker with a current Task or with a running Task that references it.
C9_ReconciliationCompleted ==
    \A th \in Threads :
        (Returning(th) /\ PolicySet) =>
            \A w \in Workers :
                workers[w].state = "dead" =>
                    /\ workers[w].current = None
                    /\ \A t \in Tasks : ~(tasks[t].worker = w /\ tasks[t].state = "running")

\* C10: every trigger() call runs the fault sweep exactly once: whenever a
\* thread leaves trigger(), its call has started one sweep.
C10_SweepOncePerCall ==
    [][\A th \in Threads :
          (pc[th] \in Body /\ pc'[th] \notin Body \cup {"acquire"})
              => hist[th].sweeps = 1]_vars

\* A step of trigger(): every one moves the thread or changes its locals.
OrchestratorStep == pc' # pc \/ frame' # frame

\* C11: no Task ever has two owning Workers: the worker field of a Task names
\* one Worker or none, it changes only when a Worker claims the Task while it
\* is queued, and no step of trigger() changes it.
C11_OneOwnerPerTask ==
    [][\A t \in Tasks :
          /\ tasks'[t].worker \in Workers \cup {None}
          /\ tasks'[t].worker # tasks[t].worker =>
                /\ tasks[t].state = "queued"
                /\ tasks'[t].state = "running"
                /\ ~OrchestratorStep]_vars

\* C11 witness: while a call sweeps, the Task of the Worker it marked dead was
\* set back, queued again and claimed by another Worker.
C11_ClaimedDuringSweep ==
    \E th \in Threads, t \in Tasks :
        /\ pc[th] \in {"sweep", "tasks", "settask", "clear"}
        /\ hist[th].tasks[t].worker # None
        /\ hist[th].workers[hist[th].tasks[t].worker].state # "dead"
        /\ workers[hist[th].tasks[t].worker].state = "dead"
        /\ tasks[t].worker # hist[th].tasks[t].worker
        /\ tasks[t].state = "running"

\* C12: the orchestrator makes no transition out of a terminal Task state: no
\* step of trigger() changes the state of a Task that is in success, fail,
\* halt or cancelled, also when the Worker wrote that state after the sweep
\* had checked the Task.
C12_TerminalStateKept ==
    [][OrchestratorStep =>
          \A t \in Tasks :
              tasks[t].state \in TerminalStates => tasks'[t].state = tasks[t].state]_vars

\* Task t is queued or running and the Worker it references is not live: dead
\* or down, or with a heartbeat older than dead_time.
Orphan(t) ==
    /\ tasks[t].state \in {"queued", "running"}
    /\ tasks[t].worker # None
    /\ \/ workers[tasks[t].worker].state \in {"dead", "down"}
       \/ clock - workers[tasks[t].worker].seen > DeadTime

\* C13: with a dead-worker policy set and trigger() called again and again,
\* every Task that is queued or running with a Worker that is not live
\* eventually stops being one: a later sweep reconciles it.
C13_OrphanReconciled ==
    \A t \in Tasks : (PolicySet /\ Orphan(t)) ~> ~Orphan(t)

\* A step of the trigger() call of thread th.
StepOf(th) == frame'[th] # frame[th] \/ (pc'[th] # pc[th] /\ pc[th] \in Body \cup {"acquire"})

\* The event on which event.trigger() was called last in the pass of th.
LastAdvanced(h) == h.advanced[Len(h.advanced)]

\* C14: trigger() never advances a finished Event: event.trigger() is called
\* only on an Event that has steps left when it is examined, and the step
\* that examines a finished Event changes no plan and reports no new work.
C14_FinishedNeverAdvanced ==
    [][\A th \in Threads :
          /\ Len(hist'[th].advanced) > Len(hist[th].advanced) =>
                (HasTrigger(LastAdvanced(hist'[th])) => steps[LastAdvanced(hist'[th])] > 0)
          /\ (InPass(th) /\ StepOf(th) /\ HasTrigger(event(th)) /\ steps[event(th)] = 0) =>
                /\ steps' = steps
                /\ hist'[th].advanced = hist[th].advanced
                /\ frame'[th].found_new_events = frame[th].found_new_events]_vars

\* C14 witness: a pass has examined a finished Event that was in the
\* registered list without calling event.trigger() on it.
C14_FinishedExamined ==
    \E th \in Threads :
        /\ pc[th] = "events"
        /\ frame[th].i = 2
        /\ HasTrigger(frame[th].snapshot[1])
        /\ steps[frame[th].snapshot[1]] = 0
        /\ hist[th].advanced = <<>>
        /\ ~frame[th].found_new_events

\* The events a running pass of th has examined so far.
Examined(th) == {frame[th].snapshot[j] : j \in 1..(frame[th].i - 1)}

\* C15: in every pass each examined Event is still registered exactly if it
\* is pending, and no step of trigger() adds an Event to the registered list;
\* so when the last pass is through and no Event was registered meanwhile,
\* events_done() is true exactly when no pending Event was left.
C15_FinishedRemovedPendingKept ==
    /\ [](\A th \in Threads :
            pc[th] = "events" =>
                /\ \A e \in Examined(th) : e \in Range(events) <=> Pending(e)
                /\ (~InPass(th) /\ Range(events) \subseteq Range(frame[th].snapshot)) =>
                       (events_done <=> \A e \in Range(frame[th].snapshot) : ~Pending(e)))
    /\ [][\A th \in Threads : StepOf(th) => Range(events') \subseteq Range(events)]_vars

\* C15 witness: at the end of a pass one examined Event is finished and gone
\* from the list while another, still pending, is kept.
C15_OneRemovedOneKept ==
    \E th \in Threads, e \in EventIds, f \in EventIds :
        /\ pc[th] = "events" /\ ~InPass(th)
        /\ e \in Range(frame[th].snapshot) /\ f \in Range(frame[th].snapshot)
        /\ ~Pending(e) /\ e \notin Range(events)
        /\ Pending(f) /\ f \in Range(events)
        /\ ~events_done

\* C16: within a pass the Events are advanced in registration order: the
\* events event.trigger() was called on appear in the order they have in the
\* registered list, which keeps the order of the appends.
C16_RegistrationOrder ==
    \A th \in Threads :
        pc[th] = "events" =>
            \A j \in 1..Len(hist[th].advanced), k \in 1..Len(hist[th].advanced) :
                j < k => IndexOf(frame[th].snapshot, hist[th].advanced[j])
                           < IndexOf(frame[th].snapshot, hist[th].advanced[k])

\* C16 witness: two Events were advanced in one pass.
C16_TwoAdvanced ==
    \E th \in Threads :
        /\ pc[th] = "events"
        /\ Len(hist[th].advanced) = 2
        /\ hist[th].advanced[1] # hist[th].advanced[2]

\* add_event for a single event or generator by thread th has returned.
AddEventReturned(th) == hist[th].call.op = "add_event" /\ hist[th].call.returned

\* C17: add_event given a single Event or a generator appends exactly one
\* entry, an Event or the ExecutionPlan made of the generator, at the end of
\* the registered list, and when it returns it has run trigger() exactly once
\* and returns the registered entry.
C17_SingleEventRegistered ==
    [][\A th \in Threads :
          /\ (hist'[th].call.op = "add_event" /\ pc[th] = "idle" /\ hist'[th] # hist[th]) =>
                /\ Len(hist'[th].call.handles) = 1
                /\ events' = Append(events, hist'[th].call.handles[1])
                /\ hist'[th].call.handles[1] \notin Range(events)
                /\ kind'[hist'[th].call.handles[1]] \in {"Event", "ExecutionPlan"}
                /\ pc'[th] = "acquire"
          /\ (hist'[th].call.op = "add_event" /\ hist'[th].call.returned
                  /\ ~hist[th].call.returned) =>
                /\ hist'[th].call.calls = 1
                /\ hist[th].sweeps = 1
                /\ hist'[th].call.result = hist'[th].call.handles]_vars

\* C17 witness: add_event has returned the ExecutionPlan it made of a generator.
C17_PlanReturned ==
    \E th \in Threads :
        /\ AddEventReturned(th)
        /\ pc[th] = "returned"
        /\ kind[hist[th].call.handles[1]] = "ExecutionPlan"
        /\ hist[th].call.result = hist[th].call.handles

\* C18: add_event given a list or tuple registers every element, generators
\* as ExecutionPlans, runs trigger() once before it returns and returns the
\* list of the registered events.
C18_ListRegistered ==
    \A th \in Threads :
        (hist[th].call.op = "add_events" /\ hist[th].call.returned) =>
            /\ hist[th].call.calls = 1
            /\ hist[th].call.result = hist[th].call.handles
            /\ \A e \in Range(hist[th].call.handles) : kind[e] \in {"Event", "ExecutionPlan"}

\* C19: when add_event, given a one-step Event whose Condition is satisfied at
\* registration, returns, the Event has been advanced and is no longer in the
\* registered list.
C19_ReadyEventRetired ==
    \A th \in Threads :
        (AddEventReturned(th) /\ hist[th].call.plan = 1 /\ hist[th].call.satisfied) =>
            /\ hist[th].call.handles[1] \notin Range(events)
            /\ steps[hist[th].call.handles[1]] = 0

\* C19 witness: add_event has returned for such an Event, which is finished
\* and gone from the list.
C19_RetiredOnReturn ==
    \E th \in Threads :
        /\ AddEventReturned(th)
        /\ pc[th] = "returned"
        /\ hist[th].call.plan = 1
        /\ hist[th].call.satisfied
        /\ steps[hist[th].call.handles[1]] = 0
        /\ hist[th].call.handles[1] \notin Range(events)

\* C20: wait_until(c) returns only on an evaluation of c that yields true; an
\* evaluation that yields false is followed by one trigger() call, and only
\* one, before c is evaluated again, and no trigger() call is made before the
\* first evaluation.
C20_WaitUntilPolls ==
    [][\A th \in Threads :
          (pc[th] = "poll" /\ pc'[th] # "poll") =>
              /\ hist[th].call.calls = IF hist[th].call.polls = 0 THEN 0 ELSE 1
              /\ IF cond
                 THEN /\ pc'[th] = "returned"
                      /\ hist'[th].call.returned
                      /\ hist'[th].call.calls = hist[th].call.calls
                 ELSE /\ pc'[th] = "acquire"
                      /\ ~hist'[th].call.returned]_vars

\* C20 witness: wait_until has returned on its second or a later poll, after
\* c had yielded false and trigger() had run.
C20_ReturnedAfterWaiting ==
    \E th \in Threads :
        /\ hist[th].call.op = "wait_until"
        /\ hist[th].call.returned
        /\ hist[th].call.polls = 2
        /\ hist[th].call.calls = 1
        /\ pc[th] = "returned"

\* A call on a condition has just returned.
Called(op) == result'.op = op /\ result' # result

\* C21: check() of an NTrajectories condition returns true exactly when the
\* project holds at least number stored Trajectories whose exists flag is set,
\* check() of an NModels condition exactly when it holds at least number
\* models, and check() changes nothing in the project or in a condition.
C21_CheckCountsBundle ==
    [][Called("check") =>
          LET c == conditions[result'.on]
          IN /\ c.class = "NTrajectories" =>
                    (result'.value = "True" <=>
                        files[[type |-> "Trajectory", exists |-> TRUE]] >= c.number)
             /\ c.class = "NModels" => (result'.value = "True" <=> models >= c.number)
             /\ result'.value \in {"True", "False"}
             /\ UNCHANGED <<files, models, conditions>>]_vars

\* C21 witness: check() of a condition with threshold 5 returns true with 5
\* matching Trajectories stored besides a file that does not match.
C21_FiveOfFive ==
    /\ result.op = "check"
    /\ result.value = "True"
    /\ conditions[result.on].class = "NTrajectories"
    /\ conditions[result.on].number = 5
    /\ trajectories = 5
    /\ Stored > 5

\* C22: adding an int k to a condition with number n returns a new condition
\* of the same class over the same project with number n + k and leaves every
\* condition there was as it is; adding a float or a string returns
\* NotImplemented and makes no condition.
C22_AddMakesNewCondition ==
    [][Called("add") =>
          LET c == conditions[result'.on]
              x == result'.arg
          IN /\ x.type = "int" =>
                    /\ result'.value = "Condition"
                    /\ result'.ref = Len(conditions) + 1
                    /\ conditions' = Append(conditions,
                            [class |-> c.class, project |-> c.project,
                             number |-> c.number + x.value])
             /\ x.type \in {"float", "str"} =>
                    /\ result'.value = "NotImplemented"
                    /\ conditions' = conditions
             /\ UNCHANGED <<files, models>>]_vars

\* C22 witness: 2 was added to a condition of another project with number 3:
\* the new condition has number 5, the original still 3.
C22_ThreePlusTwo ==
    /\ result.op = "add"
    /\ result.arg = [type |-> "int", value |-> 2]
    /\ result.ref = 2
    /\ conditions[1].number = 3
    /\ conditions[1].project = "other"
    /\ conditions[2] = [conditions[1] EXCEPT !.number = 5]

\* C23: a call of set_current_configuration that matches more than one stored
\* configuration writes an error and changes nothing: the current
\* configuration of the project, every stored configuration with its current
\* flag and the registered events stay as they were.
C23_AmbiguousSelectionKept ==
    [][(log' # log /\ Len(Selected(log'.call)) > 1) =>
          /\ log'.errors # <<>>
          /\ UNCHANGED <<configurations, current_configuration, events>>]_vars

\* C23 witness: with one configuration current and events registered, a call
\* that matched two configurations flagged current has written the error.
C23_TwoFlaggedCurrent ==
    /\ log.call.kind = "None"
    /\ log.errors = <<Ambiguous>>
    /\ Len(Current) = 2
    /\ Len(configurations) = 3
    /\ current_configuration # None
    /\ events # <<>>

\* C24: if every event advance returns (no thread stays suspended in an
\* event action for ever), every trigger() call that a thread has started
\* comes to its end with the lock released by that thread.
C24_TriggerTerminates ==
    (\A th \in Threads : (stack[th] # <<>>) ~> (stack[th] = <<>>))
        => \A th \in Threads :
              (pc[th] = "acquire") ~> (pc[th] \notin Body \cup {"acquire"} /\ lock # th)

\* C24 witness: the 50th pass of a call is through and has found new work:
\* the one-step Event its last advance appended, satisfied, is left for the
\* next call.
C24_ChainCutOff ==
    \E th \in Threads, e \in EventIds :
        /\ pc[th] = "loop"
        /\ hist[th].passes = MaxIterations
        /\ frame[th].found_iteration = 0
        /\ \A other \in Threads \ {th} : pc[other] = "idle"
        /\ e \in Range(events) /\ e \notin Range(frame[th].snapshot)
        /\ steps[e] = 1 /\ ready[e]

\* C25: at the head of the event loop a call starts another pass exactly if
\* it has made none yet, or if the pass before found new work and fewer than
\* 50 passes were made; otherwise it goes on to the sweep. A pass over no
\* event finds no new work, so a call with no registered event makes one pass.
C25_StopsAfterQuietPass ==
    [][\A th \in Threads :
          /\ (pc[th] = "loop" /\ StepOf(th)) =>
                IF \/ hist[th].passes = 0
                   \/ frame[th].found_new_events /\ hist[th].passes < MaxIterations
                THEN pc'[th] = "events" /\ hist'[th].passes = hist[th].passes + 1
                ELSE pc'[th] = "sweep"
          /\ (pc[th] = "events" /\ pc'[th] = "loop" /\ frame[th].snapshot = <<>>) =>
                ~frame'[th].found_new_events]_vars

\* C25 witness: the first pass advanced an Event and found new work, the
\* second found none: the loop is about to stop after two passes.
C25_SecondPassQuiet ==
    \E th \in Threads :
        /\ pc[th] = "loop"
        /\ hist[th].passes = 2
        /\ ~frame[th].found_new_events
        /\ frame[th].found_iteration = 0

\* C26: a trigger() call changes nothing of a Worker that was dead or down
\* when the call examined it, or whose heartbeat was then at most dead_time
\* old: state, command, current and seen stay as they were.
C26_OnlyStaleWorkersModified ==
    \A th \in Threads :
        pc[th] \in Body =>
            \A w \in Workers :
                (\/ pc[th] \in {"loop", "events"}
                 \/ hist[th].workers[w].state \in {"dead", "down"}
                 \/ frame[th].now - hist[th].workers[w].seen <= DeadTime)
                    => workers[w] = hist[th].workers[w]

\* C26 witness: a call returns having left alone a running Worker whose
\* heartbeat is exactly dead_time old and a Worker that is down.
C26_AtDeadTimeAndDown ==
    \E th \in Threads, v \in Workers, w \in Workers :
        /\ Returning(th)
        /\ hist[th].workers[v].state = "running"
        /\ frame[th].now - hist[th].workers[v].seen = DeadTime
        /\ workers[v] = hist[th].workers[v]
        /\ hist[th].workers[w].state = "down"
        /\ workers[w] = hist[th].workers[w]

\* C27: with the dead-worker task policy None, a trigger() call changes the
\* state of no Task at any point, and when it returns every Worker that was
\* stale is marked dead all the same: state 'dead', command 'kill', current None.
C27_NoPolicyNoTaskChange ==
    \A th \in Threads :
        (pc[th] \in Body /\ policy = NoPolicy) =>
            /\ \A t \in Tasks : tasks[t].state = hist[th].tasks[t].state
            /\ Returning(th) =>
                  \A w \in Workers :
                      WasStale(th, w) =>
                          workers[w] = [state |-> "dead", seen |-> hist[th].workers[w].seen,
                                        command |-> "kill", current |-> None]

\* C27 witness: with policy None a call returns having marked dead a Worker
\* whose Task is still running.
C27_DeadWorkerTaskRunning ==
    \E th \in Threads, w \in Workers, t \in Tasks :
        /\ Returning(th)
        /\ policy = NoPolicy
        /\ WasStale(th, w) /\ WasAbandoned(th, t, w)
        /\ workers[w].state = "dead"
        /\ tasks[t].state = "running"

\* C28: a step of trigger() writes no heartbeat (seen) of a Worker and no
\* worker field of a Task; of the Workers it changes only the one the sweep
\* is at, and of a Task only the state.
C28_SweepWritesFewFields ==
    [][OrchestratorStep =>
          /\ \A w \in Workers :
                /\ workers'[w].seen = workers[w].seen
                /\ workers'[w] # workers[w] =>
                      \E th \in Threads :
                          pc[th] \in {"sweep", "mark", "clear"} /\ frame[th].w = w
          /\ \A t \in Tasks : tasks'[t].worker = tasks[t].worker]_vars

\* C28 witness: a call returns having set a running Task back to the policy
\* state: the Task still references its Worker, now dead, whose heartbeat is
\* the one it wrote last.
C28_ReconciledTaskKeepsWorker ==
    \E th \in Threads, w \in Workers, t \in Tasks :
        /\ Returning(th)
        /\ PolicySet
        /\ hist[th].tasks[t] = [state |-> "running", worker |-> w]
        /\ tasks[t] = [state |-> policy, worker |-> w]
        /\ hist[th].workers[w].state = "running"
        /\ workers[w].state = "dead"
        /\ workers[w].seen = hist[th].workers[w].seen

\* C29, as stated: a pass advances only Events of the copy of the registered
\* list made when it started, and the copy stays as it is while the pass
\* runs; whenever a pass found new work the same call starts another pass,
\* over a copy of the list as it is then, and otherwise it starts none.
C29_NextPassAfterNewWork ==
    /\ [](\A th \in Threads :
            pc[th] = "events" => Range(hist[th].advanced) \subseteq Range(frame[th].snapshot))
    /\ [][\A th \in Threads :
            /\ (pc[th] = "events" /\ pc'[th] = "events") =>
                    frame'[th].snapshot = frame[th].snapshot
            /\ (pc[th] = "loop" /\ StepOf(th) /\ hist[th].passes > 0) =>
                    IF frame[th].found_new_events
                    THEN pc'[th] = "events" /\ frame'[th].snapshot = events
                    ELSE pc'[th] = "sweep"]_vars

\* C29, amended: a pass advances only Events of the copy of the registered
\* list made when it started, and the copy stays as it is while the pass
\* runs, so an Event registered meanwhile is not advanced in that pass; if
\* the pass found new work and fewer than 50 passes were made, the same call
\* starts another pass, over a copy of the list as it is then, and otherwise
\* it starts none.
C29_PassOverSnapshot ==
    /\ [](\A th \in Threads :
            pc[th] = "events" => Range(hist[th].advanced) \subseteq Range(frame[th].snapshot))
    /\ [][\A th \in Threads :
            /\ (pc[th] = "events" /\ pc'[th] = "events") =>
                    frame'[th].snapshot = frame[th].snapshot
            /\ (pc[th] = "loop" /\ StepOf(th) /\ hist[th].passes > 0) =>
                    IF frame[th].found_new_events /\ hist[th].passes < MaxIterations
                    THEN pc'[th] = "events" /\ frame'[th].snapshot = events
                    ELSE pc'[th] = "sweep"
            /\ (pc[th] = "loop" /\ pc'[th] = "events") => frame'[th].snapshot = events]_vars

\* C29 witness: a pass that found new work is through; an Event registered
\* while it ran, satisfied and with a step left, was not advanced in it.
C29_RegisteredDuringPass ==
    \E th \in Threads, e \in EventIds :
        /\ pc[th] = "events" /\ ~InPass(th)
        /\ frame[th].found_new_events
        /\ hist[th].advanced # <<>>
        /\ e \in Range(events) /\ e \notin Range(frame[th].snapshot)
        /\ steps[e] > 0 /\ ready[e]
        /\ e \notin Range(hist[th].advanced)

\* C30: the timer thread started by run() ends only once its stop signal is
\* set, and with the signal set it starts no trigger() call from its wait:
\* the call it is in or is about to make is the last.
C30_DriverRunsUntilStopped ==
    /\ [](\A th \in Timers : pc[th] = "terminated" => Stopped(th))
    /\ [][\A th \in Timers : (pc[th] = "wait" /\ pc'[th] = "acquire") => ~Stopped(th)]_vars

\* A timer thread that was started and has not ended
Live(th) == pc[th] \notin {"unstarted", "terminated"}

\* th has just returned from a call of op
Returns(th, op) == pc[th] = "idle" /\ pc'[th] = "returned" /\ hist'[th].call.op = op

\* C31: whatever run() and stop() calls the caller's thread has made, at most
\* one timer thread is alive with its stop signal unset; run() with a driver
\* kept starts no thread and stop() with no driver kept changes nothing.
C31_AtMostOneDriver ==
    /\ [](Cardinality({th \in Timers : Live(th) /\ ~Stopped(th)}) <= 1)
    /\ [][(Returns("main", "run") /\ event_timer # NoThread) =>
              /\ UNCHANGED <<event_timer, stop_event, signals, timer>>
              /\ \A th \in Timers : pc'[th] = pc[th]]_vars
    /\ [][(Returns("main", "stop") /\ event_timer = NoThread) =>
              /\ UNCHANGED <<event_timer, stop_event, signals, timer>>
              /\ \A th \in Timers : pc'[th] = pc[th]]_vars

\* C31 witness: run() has returned having started the second driver while
\* the first, stopped, is still inside its last trigger() call.
C31_SecondDriverBesideStopped ==
    /\ pc["main"] = "returned" /\ hist["main"].call.op = "run"
    /\ event_timer = Timer(2)
    /\ pc[Timer(1)] \in Body /\ Stopped(Timer(1))
    /\ Live(Timer(2)) /\ ~Stopped(Timer(2))
\* C32: once close() has returned, with the storage closed, no timer thread
\* is inside trigger() or waiting to enter it, at that moment or later.
C32_NoCycleAfterClose ==
    storage = "closed" => \A th \in Timers : pc[th] \notin Body \cup {"acquire"}
\* C33: the lock is held only by a thread inside trigger(); the step with
\* which a call ends, a return or an exception of an event action or of a
\* write, releases it, and the exception leaves the registered list as it
\* is; an Event leaves the list only when a pass examines it and finds it
\* finished; and a call that waits for the lock while no call is inside
\* trigger() can take it.
C33_LockReleasedOnRaise ==
    /\ [](\A th \in Callers : lock = th => InBody(th))
    /\ [][\A th \in Callers :
            (pc[th] \in Body /\ pc'[th] \notin Body \cup {"acquire"}) =>
                /\ lock = th /\ lock' = NoThread
                /\ ~Returning(th) => events' = events]_vars
    /\ [][\A e \in Range(events) \ Range(events') :
            \E th \in Callers : InPass(th) /\ event(th) = e /\ ~Pending(e)']_vars
    /\ [](\A th \in Callers :
            (pc[th] = "acquire" /\ \A o \in Callers : ~InBody(o)) => ENABLED Acquire(th))

\* C33 witness: the timer thread was ended by an exception that left its
\* trigger() call, and a later call of the caller's thread holds the lock
\* and examines a pending Event that is still registered.
C33_CallAfterRaise ==
    /\ pc[Timer(1)] = "terminated" /\ ~Stopped(Timer(1))
    /\ lock = "main" /\ InPass("main")
    /\ Pending(event("main")) /\ event("main") \in Range(events)
\* C34: with add_event appending outside the lock while a trigger() call of
\* the driver runs, an Event leaves the registered list only in the del
\* that follows its examination, finished; so every registered Event with
\* steps left is in the list.
C34_AppendLosesNothing ==
    /\ [](\A e \in EventIds : (kind[e] # "none" /\ steps[e] > 0) => e \in Range(events))
    /\ [][\A e \in Range(events) \ Range(events') :
            \E th \in Threads : pc[th] = "delete" /\ event(th) = e /\ steps[e] = 0]_vars
    /\ [][\A e \in Range(events) : e \in Range(events') \/ steps[e] = 0]_vars

\* C34 witness: the driver has looked up the index of a finished Event and
\* not deleted it yet; add_event has appended a pending Event meanwhile and
\* waits for the lock.
C34_AppendedBeforeDel ==
    /\ pc["driver"] = "delete" /\ pc["main"] = "acquire"
    /\ Len(events) > Len(frame["driver"].snapshot)
    /\ \E e \in Range(events) : e \notin Range(frame["driver"].snapshot) /\ steps[e] > 0
\* An unfinished or just returned wait_until call of th on a list
OnList(th) == hist[th].call.op = "wait_until" /\ hist[th].call.at > 0

\* C35: wait_until on a list calls a callable only when every callable
\* before it in the list has been seen to return true, never calls one
\* again that it has seen return true, and has seen each return true when
\* it returns.
C35_ListAwaitedInOrder ==
    /\ [](OnList("main") =>
            /\ \A k \in hist["main"].call.polled : 1..(k - 1) \subseteq hist["main"].call.observed
            /\ pc["main"] = "returned" => hist["main"].call.observed = 1..Len(conds))
    /\ [][(OnList("main") /\ pc["main"] = "poll" /\ hist'["main"] # hist["main"]) =>
              /\ hist["main"].call.at \notin hist["main"].call.observed
              /\ hist'["main"].call.polled = hist["main"].call.polled \cup {hist["main"].call.at}
              /\ hist'["main"].call.observed \subseteq hist["main"].call.observed \cup {hist["main"].call.at}
              /\ hist'["main"].call.at >= hist["main"].call.at]_vars

\* C35 witness: wait_until has returned for a list of two callables after
\* waiting for the second, with the first one false again by now.
C35_ReturnedFirstFalseAgain ==
    /\ OnList("main") /\ pc["main"] = "returned"
    /\ Len(conds) = 2 /\ ~conds[1] /\ conds[2]
    /\ hist["main"].call.observed = {1, 2}
\* C36: a call of set_current_configuration on a store with at most one
\* configuration flagged current leaves at most one flagged, also when it
\* matches none; and a call that selected exactly one leaves that one as the
\* only one flagged and as the one the configuration property returns.
C36_OneCurrentAfterCall ==
    [][log' # log =>
          /\ Len(Current) <= 1 => Len(Current)' <= 1
          /\ Single(Selected(log'.call)) =>
                /\ Current' = <<Selected(log'.call)[1]>>
                /\ current_configuration' = Selected(log'.call)[1]]_vars
\* The tokens of a line, and whether the line is a comment
Tokens(line) == Split(line)

Comment(line) == Tokens(line) # <<>> /\ Head(Head(Tokens(line))) = "#"

\* C37: outside a block a line 'NAME {' opens block NAME with an empty
\* field map and any other line changes nothing; inside a block a blank
\* line or a comment changes nothing, a line of two tokens stores field and
\* value in the open block, the line '}' closes the block and any other line
\* raises ValueError; at the end of the file the blocks read are returned,
\* the last one open or not.
C37_TwoModeScanner ==
    /\ [][parser'.lines > parser.lines =>
            LET v == Tokens(parser'.line)
                open == parser.reading_fields
                blocks == parser.configurations_fields
                same == /\ parser'.reading_fields = open
                        /\ parser'.configurations_fields = blocks
                        /\ ~parser'.ValueError
            IN IF open = <<>>
               THEN IF Len(v) = 2 /\ v[2] = <<"{">> /\ ~Comment(parser'.line)
                    THEN /\ parser'.reading_fields = v[1]
                         /\ DOMAIN parser'.configurations_fields = DOMAIN blocks \cup {v[1]}
                         /\ DOMAIN parser'.configurations_fields[v[1]] = {}
                         /\ \A b \in DOMAIN blocks \ {v[1]} :
                                parser'.configurations_fields[b] = blocks[b]
                         /\ ~parser'.ValueError
                    ELSE same
               ELSE IF v = <<>> \/ Comment(parser'.line)
                    THEN same
                    ELSE IF Len(v) = 2
                    THEN /\ parser'.reading_fields = open
                         /\ DOMAIN parser'.configurations_fields = DOMAIN blocks
                         /\ DOMAIN parser'.configurations_fields[open] =
                                DOMAIN blocks[open] \cup {v[1]}
                         /\ parser'.configurations_fields[open][v[1]] = v[2]
                         /\ \A k \in DOMAIN blocks[open] \ {v[1]} :
                                parser'.configurations_fields[open][k] = blocks[open][k]
                         /\ \A b \in DOMAIN blocks \ {open} :
                                parser'.configurations_fields[b] = blocks[b]
                         /\ ~parser'.ValueError
                    ELSE IF v = <<(<<"}">>)>>
                    THEN /\ parser'.reading_fields = <<>>
                         /\ parser'.configurations_fields = blocks
                         /\ ~parser'.ValueError
                    ELSE parser'.ValueError]_vars
    /\ [][(parser'.returned /\ ~parser.returned) =>
            /\ ~parser'.ValueError
            /\ parser'.configurations_fields = parser.configurations_fields]_vars

\* C37 witness: the file ended inside the second block, which has a field;
\* both blocks are returned.
C37_ReturnedInsideBlock ==
    /\ parser.returned
    /\ parser.reading_fields # <<>>
    /\ Cardinality(DOMAIN parser.configurations_fields) = 2
    /\ DOMAIN parser.configurations_fields[parser.reading_fields] # {}

====
